---- MODULE Spec2Model ----
(***************************************************************************)
(* Hand-shape analysis of kangsive/mahjong: the shanten calculator, the    *)
(* decomposition search, the ukeire enumerator, the win-pattern check of   *)
(* the sichuan rule and the discard-efficiency scorer with its peak-theory *)
(* refinement (src/ai/shanten_ai.py, src/rules/sichuan_rule.py).           *)
(*                                                                         *)
(* A tile is the number 10 * suit + value: suit 0 = WAN, 1 = TONG,         *)
(* 2 = TIAO (values 1..9), 3 = FENG (values 1..4), 4 = JIAN (values 1..3). *)
(* The numbering follows the sort key of Player.sort_hand and the order in *)
(* which calculate_ukeire walks the 34 kinds.                              *)
(***************************************************************************)
EXTENDS Integers, Sequences, FiniteSets, TLC

VARIABLES
    hand_tiles,     \* player.hand_tiles: the sorted list of held tiles
    melds_count,    \* len(player.melds)
    new_tile,       \* the tile handed to can_win (0: None)
    missing_suit,   \* player.missing_suit: -1 for None, else the suit
    discard_pool,   \* the visible tiles handed to the analyzers
    available_tiles, \* the candidates handed to analyze_discard_efficiency
    shentan_type,   \* "general", "pairs" or "kokushi"
    done,           \* the calls that have returned
    shanten,        \* result of calculate_shanten
    win,            \* result of _check_win_pattern_with_melds
    ukeire,         \* result of calculate_ukeire
    scores_base,    \* result of analyze_discard_efficiency(use_peak_theory=False)
    scores_peak,    \* result of analyze_discard_efficiency(use_peak_theory=True)
    nesting,       \* depth and flags of the nested calls of analyze_discard_efficiency
    danger_call,   \* the arguments evaluate_tile_danger_level is called with
    danger,        \* outcome of evaluate_tile_danger_level
    raised,        \* the calls that raised, each with its exception
    chosen,        \* the branch taken and the tile returned by choose_discard
    engine,        \* the GameEngine: its fields, the deck and the players
    returned,      \* the last call of the engine's interface and what it returned
    counts_list,   \* the counts list handed to _enumerate_combinations
    enumerated,    \* what _enumerate_combinations appended and the list as it left it
    combinations,  \* what _get_suit_combinations returned
    wait_ukeire,   \* the ukeire map handed to the wait classifier
    wait_pattern   \* the tag _classify_tenpai_pattern returned

vars == <<hand_tiles, melds_count, new_tile, missing_suit, discard_pool,
          available_tiles, shentan_type, done, shanten, win, ukeire, scores_base, scores_peak,
          nesting,
          danger_call,
          danger,
          raised,
          chosen,
          engine,
          returned,
          counts_list,
          enumerated,
          combinations,
          wait_ukeire,
          wait_pattern>>

----------------------------------------------------------------------------
(* Tiles: src/game/tile.py *)

WAN == 0
TONG == 1
TIAO == 2
FENG == 3
JIAN == 4

Tile(tile_type, value) == 10 * tile_type + value

TileTypeOf(t) == t \div 10

ValueOf(t) == t % 10

NumberSuits == {WAN, TONG, TIAO}

is_number_tile(t) == TileTypeOf(t) \in NumberSuits

ALL_TILES ==
    {Tile(s, v) : s \in NumberSuits, v \in 1..9}
        \cup {Tile(FENG, v) : v \in 1..4} \cup {Tile(JIAN, v) : v \in 1..3}

MinOf(S) == CHOOSE x \in S : \A y \in S : x <= y

MaxOf(S) == CHOOSE x \in S : \A y \in S : x >= y

Min2(a, b) == IF a <= b THEN a ELSE b

Max2(a, b) == IF a >= b THEN a ELSE b

----------------------------------------------------------------------------
(* ShantenCalculator: src/ai/shanten_ai.py *)

\* _count_tiles: a dict read with .get(key, 0), so a total function here
_count_tiles(tiles) ==
    [k \in ALL_TILES |-> Cardinality({i \in 1..Len(tiles) : tiles[i] = k})]

\* the formula without the pair bonus
_calc_shanten_no_pair_bonus(melds, tatsu, pairs) ==
    8 - 2 * melds - Min2(tatsu + pairs, 4 - melds)

\* the formula with the pair bonus counted twice
_calc_shanten_double_bonus(melds, tatsu, pairs) ==
    LET base == 8 - 2 * melds - Min2(tatsu + pairs, 4 - melds)
    IN  IF pairs >= 1 /\ (melds + tatsu + pairs) >= 5 THEN base - 2 ELSE base

_calc_shanten_from_groups(melds, tatsu, pairs) ==
    LET base == 8 - 2 * melds - Min2(tatsu + pairs, 4 - melds)
    IN  IF pairs >= 1 /\ (melds + tatsu + pairs) >= 5 THEN base - 1 ELSE base

\* the treatments with the one-gap partial run left out (the adjacent one is
\* tried twice)
TreatmentsWithoutGap ==
    <<[take |-> <<<<0, 3>>>>, add |-> <<1, 0, 0>>, guarded |-> TRUE],
      [take |-> <<<<0, 1>>, <<1, 1>>, <<2, 1>>>>, add |-> <<1, 0, 0>>,
       guarded |-> TRUE],
      [take |-> <<<<0, 2>>>>, add |-> <<0, 0, 1>>, guarded |-> TRUE],
      [take |-> <<<<0, 1>>, <<1, 1>>>>, add |-> <<0, 1, 0>>, guarded |-> TRUE],
      [take |-> <<<<0, 1>>, <<1, 1>>>>, add |-> <<0, 1, 0>>, guarded |-> TRUE],
      [take |-> <<<<0, 1>>>>, add |-> <<0, 0, 0>>, guarded |-> FALSE]>>

\* The six treatments of the tile at pos, in the order the code tries them:
\* the <<offset from pos, tiles taken there>> pairs, what the treatment adds
\* to (melds, tatsu, pairs), and whether the code guards it.
Treatments ==
    <<[take |-> <<<<0, 3>>>>, add |-> <<1, 0, 0>>, guarded |-> TRUE],
      [take |-> <<<<0, 1>>, <<1, 1>>, <<2, 1>>>>, add |-> <<1, 0, 0>>,
       guarded |-> TRUE],
      [take |-> <<<<0, 2>>>>, add |-> <<0, 0, 1>>, guarded |-> TRUE],
      [take |-> <<<<0, 1>>, <<1, 1>>>>, add |-> <<0, 1, 0>>, guarded |-> TRUE],
      [take |-> <<<<0, 1>>, <<2, 1>>>>, add |-> <<0, 1, 0>>, guarded |-> TRUE],
      [take |-> <<<<0, 1>>>>, add |-> <<0, 0, 0>>, guarded |-> FALSE]>>

\* the if-condition of a treatment on the list as it stands
TreatmentGuard(t, counts, pos) ==
    t.guarded =>
        /\ pos + t.take[Len(t.take)][1] <= 9
        /\ \A j \in 1..Len(t.take) : counts[pos + t.take[j][1]] >= t.take[j][2]

\* what a treatment takes at position i
TakenAt(take, pos, i) ==
    IF \E j \in 1..Len(take) : pos + take[j][1] = i
    THEN take[CHOOSE j \in 1..Len(take) : pos + take[j][1] = i][2]
    ELSE 0

\* counts[..] -= .. before the recursive call, and after it only
\* counts[pos] += ..: the neighbours are left as the call found them
AdjustAtPosOnly(counts, take, pos, sign) ==
    [i \in 1..9 |->
        IF sign = 1 /\ i # pos THEN counts[i]
        ELSE counts[i] + sign * TakenAt(take, pos, i)]

\* counts[..] -= .. (sign = -1) before the recursive call, += (sign = 1) after
Adjust(counts, take, pos, sign) ==
    IF Len(take) = 1
    THEN [counts EXCEPT ![pos + take[1][1]] = @ + sign * take[1][2]]
    ELSE IF Len(take) = 2
    THEN [counts EXCEPT ![pos + take[1][1]] = @ + sign * take[1][2],
                        ![pos + take[2][1]] = @ + sign * take[2][2]]
    ELSE [counts EXCEPT ![pos + take[1][1]] = @ + sign * take[1][2],
                        ![pos + take[2][1]] = @ + sign * take[2][2],
                        ![pos + take[3][1]] = @ + sign * take[3][2]]

\* One call of _enumerate_combinations on the shared list counts: the triples
\* it appends to results, and the list as the call leaves it.  Try is one
\* treatment on the list as the treatments before it left it; TryAll runs the
\* six one after the other on the one list, each on the outcome of the one
\* before it (r1 .. r6).
RECURSIVE _enumerate_combinations(_, _, _, _)
Try(n, so_far, pos, melds, tatsu, pairs) ==
    IF ~TreatmentGuard(Treatments[n], so_far.counts, pos)
    THEN so_far
    ELSE LET t == Treatments[n]
             inner == _enumerate_combinations(
                          Adjust(so_far.counts, t.take, pos, -1),
                          melds + t.add[1], tatsu + t.add[2], pairs + t.add[3])
         IN  [results |-> so_far.results \cup inner.results,
              counts |-> Adjust(inner.counts, t.take, pos, 1)]

TryAll(counts, pos, melds, tatsu, pairs) ==
    CHOOSE r6 \in
        {Try(6, r5, pos, melds, tatsu, pairs) : r5 \in
        {Try(5, r4, pos, melds, tatsu, pairs) : r4 \in
        {Try(4, r3, pos, melds, tatsu, pairs) : r3 \in
        {Try(3, r2, pos, melds, tatsu, pairs) : r2 \in
        {Try(2, r1, pos, melds, tatsu, pairs) : r1 \in
        {Try(1, [results |-> {}, counts |-> counts],
             pos, melds, tatsu, pairs)}}}}}} : TRUE

\* pos is the first position holding a tile
_enumerate_combinations(counts, melds, tatsu, pairs) ==
    IF \A i \in 1..9 : counts[i] <= 0
    THEN [results |-> {<<melds, tatsu, pairs>>}, counts |-> counts]
    ELSE TryAll(counts,
                CHOOSE i \in 1..9 :
                    counts[i] > 0 /\ \A j \in 1..(i - 1) : counts[j] <= 0,
                melds, tatsu, pairs)

\* no call of _enumerate_combinations has returned
NoEnumeration == [results |-> {}, counts |-> <<>>]

EmptySuit == <<0, 0, 0, 0, 0, 0, 0, 0, 0>>

_get_suit_combinations(suit_counts) ==
    IF \A i \in 1..9 : suit_counts[i] = 0
    THEN {<<0, 0, 0>>}
    ELSE _enumerate_combinations(suit_counts, 0, 0, 0).results

HonorKinds == {k \in ALL_TILES : TileTypeOf(k) \in {FENG, JIAN}}

RECURSIVE SumOver(_, _)
SumOver(S, f) ==
    IF S = {} THEN 0
    ELSE LET x == CHOOSE y \in S : TRUE IN f[x] + SumOver(S \ {x}, f)

\* the honor loop of _calculate_standard_shanten
honor_melds(tile_counts) ==
    SumOver(HonorKinds,
            [k \in HonorKinds |->
                IF tile_counts[k] >= 3 THEN tile_counts[k] \div 3 ELSE 0])

honor_pairs(tile_counts) ==
    SumOver(HonorKinds,
            [k \in HonorKinds |->
                LET c == IF tile_counts[k] >= 3 THEN tile_counts[k] % 3
                         ELSE tile_counts[k]
                IN  IF c = 2 THEN 1 ELSE 0])

suit_counts_of(tile_counts, suit) == [i \in 1..9 |-> tile_counts[Tile(suit, i)]]

\* the (total_melds, total_tatsu, total_pairs) of every pass of the triple loop
GroupTotals(tile_counts, mc) ==
    {<<w[1] + t[1] + s[1] + honor_melds(tile_counts) + mc,
       w[2] + t[2] + s[2],
       w[3] + t[3] + s[3] + honor_pairs(tile_counts)>> :
        w \in _get_suit_combinations(suit_counts_of(tile_counts, WAN)),
        t \in _get_suit_combinations(suit_counts_of(tile_counts, TONG)),
        s \in _get_suit_combinations(suit_counts_of(tile_counts, TIAO))}

_calculate_standard_shanten(tile_counts, mc) ==
    LET totals == GroupTotals(tile_counts, mc)
    IN  IF <<4, 0, 1>> \in totals
        THEN -1
        ELSE Max2(0, MinOf({8} \cup
                 {_calc_shanten_from_groups(g[1], g[2], g[3]) : g \in totals}))

\* pairs counted as the kinds held at least twice
_calculate_seven_pairs_kinds(tile_counts) ==
    LET pairs == Cardinality({k \in ALL_TILES : tile_counts[k] >= 2})
    IN  IF pairs = 7 THEN -1 ELSE 6 - pairs

\* the single tiles beyond the free places counted as well: the formula the
\* source keeps as a comment (line 261)
_calculate_seven_pairs_with_singles(tile_counts) ==
    LET pairs == SumOver(ALL_TILES,
                     [k \in ALL_TILES |->
                         IF tile_counts[k] >= 2 THEN tile_counts[k] \div 2 ELSE 0])
        single_tiles == Cardinality({k \in ALL_TILES : tile_counts[k] % 2 = 1})
    IN  IF pairs = 7 THEN -1
        ELSE 6 - pairs + Max2(0, single_tiles - (7 - pairs))

_calculate_seven_pairs_shanten(tile_counts) ==
    LET pairs == SumOver(ALL_TILES,
                     [k \in ALL_TILES |->
                         IF tile_counts[k] >= 2 THEN tile_counts[k] \div 2 ELSE 0])
    IN  IF pairs = 7 THEN -1 ELSE 6 - pairs

kokushi_keys ==
    {Tile(WAN, 1), Tile(WAN, 9), Tile(TONG, 1), Tile(TONG, 9),
     Tile(TIAO, 1), Tile(TIAO, 9)} \cup HonorKinds

\* every held kind counted, orphan or not
_calculate_kokushi_all_kinds(tile_counts) ==
    LET kokushi_types_count ==
            Cardinality({k \in ALL_TILES : tile_counts[k] > 0})
        has_pair == \E k \in ALL_TILES : tile_counts[k] >= 2
    IN  IF has_pair
        THEN IF kokushi_types_count = 13 THEN -1
             ELSE Max2(0, 12 - kokushi_types_count)
        ELSE Max2(0, 13 - kokushi_types_count)

_calculate_kokushi_shanten(tile_counts) ==
    LET kokushi_types_count ==
            Cardinality({k \in kokushi_keys : tile_counts[k] > 0})
        has_pair == \E k \in kokushi_keys : tile_counts[k] >= 2
    IN  IF has_pair
        THEN IF kokushi_types_count = 13 THEN -1
             ELSE Max2(0, 12 - kokushi_types_count)
        ELSE Max2(0, 13 - kokushi_types_count)

calculate_shanten(tiles, mc, type) ==
    IF tiles = <<>> THEN 13
    ELSE IF type = "general"
         THEN _calculate_standard_shanten(_count_tiles(tiles), mc)
    ELSE IF type = "pairs"
         THEN _calculate_seven_pairs_shanten(_count_tiles(tiles))
    ELSE _calculate_kokushi_shanten(_count_tiles(tiles))

----------------------------------------------------------------------------
(* SichuanRule: src/rules/sichuan_rule.py *)

\* the keys of the dict tile_counts in insertion order: each kind at its first
\* occurrence in the list
RECURSIVE KeyOrder(_)
KeyOrder(tiles) ==
    IF tiles = <<>> THEN <<>>
    ELSE LET front == KeyOrder(SubSeq(tiles, 1, Len(tiles) - 1))
             last == tiles[Len(tiles)]
         IN  IF \E i \in 1..Len(front) : front[i] = last
             THEN front ELSE Append(front, last)

_is_number_tile_key(key) == TileTypeOf(key) \in NumberSuits

RECURSIVE _try_form_melds(_, _, _, _, _)
_try_form_melds(order, tile_counts, melds_formed, has_pair, target_melds) ==
    LET total_tiles == SumOver({k \in ALL_TILES : tile_counts[k] > 0}, tile_counts)
        expected_tiles == (target_melds - melds_formed) * 3
                              + (IF has_pair THEN 0 ELSE 2)
    IN  IF total_tiles = 0
        THEN melds_formed = target_melds /\ has_pair
        ELSE IF total_tiles # expected_tiles
        THEN FALSE
        ELSE
        LET first_key == order[MinOf({i \in 1..Len(order) :
                                         tile_counts[order[i]] > 0})]
            value == ValueOf(first_key)
            count == tile_counts[first_key]
        IN  \/ /\ ~has_pair
               /\ count >= 2
               /\ _try_form_melds(order, [tile_counts EXCEPT ![first_key] = @ - 2],
                                  melds_formed, TRUE, target_melds)
            \/ /\ count >= 3
               /\ melds_formed < target_melds
               /\ _try_form_melds(order, [tile_counts EXCEPT ![first_key] = @ - 3],
                                  melds_formed + 1, has_pair, target_melds)
            \/ /\ _is_number_tile_key(first_key)
               /\ value <= 7
               /\ melds_formed < target_melds
               /\ count >= 1
               /\ tile_counts[first_key + 1] >= 1
               /\ tile_counts[first_key + 2] >= 1
               /\ _try_form_melds(order,
                                  [tile_counts EXCEPT ![first_key] = @ - 1,
                                                      ![first_key + 1] = @ - 1,
                                                      ![first_key + 2] = @ - 1],
                                  melds_formed + 1, has_pair, target_melds)

_check_win_pattern_with_melds(tiles, existing_melds_count) ==
    IF tiles = <<>>
    THEN existing_melds_count = 4
    ELSE _try_form_melds(KeyOrder(tiles), _count_tiles(tiles), 0, FALSE,
                         4 - existing_melds_count)

\* can_win: the list handed to the pattern check is a copy of the hand with
\* new_tile appended
test_tiles == IF new_tile = 0 THEN hand_tiles ELSE Append(hand_tiles, new_tile)

----------------------------------------------------------------------------
(* Player: src/game/player.py *)

\* sort_hand: ascending by type_order * 100 + value, which orders tiles as
\* their numbers do (list.sort is stable and equal keys are equal tiles)
RECURSIVE sort_hand(_)
sort_hand(tiles) ==
    IF tiles = <<>> THEN <<>>
    ELSE LET m == MinOf({tiles[i] : i \in 1..Len(tiles)})
             at == MinOf({i \in 1..Len(tiles) : tiles[i] = m})
         IN  <<m>> \o sort_hand(SubSeq(tiles, 1, at - 1)
                                    \o SubSeq(tiles, at + 1, Len(tiles)))

\* add_tile: append, then sort_hand
add_tile(tiles, t) == sort_hand(Append(tiles, t))

----------------------------------------------------------------------------
(* calculate_ukeire: src/ai/shanten_ai.py *)

\* no tile taken for a tile of the missing suit
_is_missing_suit_never(tile_type, ms) == FALSE

_is_missing_suit_tile(tile_type, ms) == tile_type = ms

NoUkeire == [key \in {} |-> 0]

\* One pass of the loop body of calculate_ukeire: whether it records key.  A
\* missing suit of None (-1) is falsy and skips nothing.
UkeireRecords(key, tiles, mc, ms, used_tiles, type, current_shanten) ==
    IF ms # -1 /\ _is_missing_suit_tile(TileTypeOf(key), ms)
    THEN FALSE
    ELSE IF 4 - used_tiles[key] <= 0
    THEN FALSE
    ELSE calculate_shanten(Append(tiles, key), mc, type) < current_shanten

\* the passes write distinct keys, so the dict is the kinds recorded, each with
\* its remaining_count
calculate_ukeire(tiles, mc, ms, pool, type) ==
    LET current_shanten == calculate_shanten(tiles, mc, type)
        used_tiles == _count_tiles(tiles \o pool)
    IN  [key \in {k \in ALL_TILES :
                     UkeireRecords(k, tiles, mc, ms, used_tiles, type,
                                   current_shanten)}
            |-> 4 - used_tiles[key]]

----------------------------------------------------------------------------
(* TileEfficiencyAnalyzer: src/ai/shanten_ai.py *)

\* Scores are counted in units of 1/55440, so that every product and quotient
\* the scorer forms (x 1.5, / total_patterns with at most 11 wait patterns,
\* the tolerance 0.1) is a whole number of units.
ScoreUnit == 2 * 2 * 2 * 2 * 3 * 3 * 5 * 7 * 11

\* list.remove(tile): the list without the first tile equal to it
remove(tiles, tile) ==
    LET at == CHOOSE i \in 1..Len(tiles) :
                  tiles[i] = tile /\ \A j \in 1..(i - 1) : tiles[j] # tile
    IN  SubSeq(tiles, 1, at - 1) \o SubSeq(tiles, at + 1, Len(tiles))

\* sum(ukeire.values())
SumValues(f) == SumOver(DOMAIN f, f)

_is_dangerous_tile(tile) ==
    IF is_number_tile(tile)
    THEN ValueOf(tile) \in 3..7
    ELSE TileTypeOf(tile) = JIAN

\* player.game_context is set nowhere, so the danger adjustment is the
\* simplified one
_calculate_efficiency_score(tile, current_shanten, after_shanten, total_ukeire, ms) ==
    ScoreUnit *
        ((IF after_shanten <= current_shanten THEN 50 ELSE -50)
         + total_ukeire * 2
         + (IF ms # -1 /\ TileTypeOf(tile) = ms THEN 100 ELSE 0)
         - (IF _is_dangerous_tile(tile) THEN 10 ELSE 0))

\* always all_patterns[0], the surplus-tile shape
_classify_1shanten_pattern(tiles, final_ukeire) == "surplus_tile"

_is_kokushi_tenpai(tiles, final_ukeire) ==
    /\ \A i \in 1..Len(tiles) : tiles[i] \in kokushi_keys
    /\ Cardinality({tiles[i] : i \in 1..Len(tiles)}) = 13
    /\ \A key \in ALL_TILES : _count_tiles(tiles)[key] # 2

_is_jiulian_tenpai(tiles, final_ukeire) ==
    LET tile_types == {TileTypeOf(tiles[i]) :
                          i \in {j \in 1..Len(tiles) : is_number_tile(tiles[j])}}
        suit == CHOOSE t \in tile_types : TRUE
        expected == <<3, 1, 1, 1, 1, 1, 1, 1, 3>>
        gap(i) == LET c == _count_tiles(tiles)[Tile(suit, i)]
                  IN  IF c >= expected[i] THEN c - expected[i] ELSE expected[i] - c
    IN  /\ Cardinality(tile_types) = 1
        /\ SumOver(1..9, [i \in 1..9 |-> gap(i)]) <= 2
        /\ Cardinality(DOMAIN final_ukeire) >= 8

\* None is the empty string
_check_special_tenpai_patterns(tiles, final_ukeire) ==
    IF _is_kokushi_tenpai(tiles, final_ukeire) THEN "kokushi"
    ELSE IF _is_jiulian_tenpai(tiles, final_ukeire) THEN "jiulian"
    ELSE ""

_classify_single_wait(tiles, final_ukeire) ==
    LET key == CHOOSE k \in DOMAIN final_ukeire : TRUE
        value == ValueOf(key)
    IN  IF TileTypeOf(key) \in {FENG, JIAN} THEN "tanki"
        ELSE IF value \in {3, 7} THEN "penchan"
        ELSE IF /\ value \in 2..8
                /\ _count_tiles(tiles)[key - 1] > 0
                /\ _count_tiles(tiles)[key + 1] > 0
        THEN "kanchan"
        ELSE "tanki"

\* the double wait classified without looking for an honor kind first
_classify_double_wait_by_rank(tiles, final_ukeire) ==
    LET waiting_keys == DOMAIN final_ukeire
        low == MinOf(waiting_keys)
        high == MaxOf(waiting_keys)
    IN  IF TileTypeOf(low) # TileTypeOf(high)
        THEN "ryanmen"
        ELSE IF high - low = 3
        THEN (IF _count_tiles(tiles)[low] >= 1 /\ _count_tiles(tiles)[high] >= 1
              THEN "shuangtiao" ELSE "ryanmen")
        ELSE IF _count_tiles(tiles)[low] >= 2 /\ _count_tiles(tiles)[high] >= 2
        THEN "shanpon"
        ELSE "ryanmen"

_classify_double_wait(tiles, final_ukeire) ==
    LET waiting_keys == DOMAIN final_ukeire
        low == MinOf(waiting_keys)
        high == MaxOf(waiting_keys)
    IN  IF \E key \in waiting_keys : TileTypeOf(key) \in {FENG, JIAN}
        THEN "shanpon"
        ELSE IF TileTypeOf(low) # TileTypeOf(high)
        THEN "ryanmen"
        ELSE IF high - low = 3
        THEN (IF _count_tiles(tiles)[low] >= 1 /\ _count_tiles(tiles)[high] >= 1
              THEN "shuangtiao" ELSE "ryanmen")
        ELSE IF _count_tiles(tiles)[low] >= 2 /\ _count_tiles(tiles)[high] >= 2
        THEN "shanpon"
        ELSE "ryanmen"

_classify_tenpai_pattern(tiles, final_ukeire) ==
    LET waiting_count == Cardinality(DOMAIN final_ukeire)
    IN  IF _check_special_tenpai_patterns(tiles, final_ukeire) # ""
        THEN _check_special_tenpai_patterns(tiles, final_ukeire)
        ELSE IF waiting_count = 1 THEN _classify_single_wait(tiles, final_ukeire)
        ELSE IF waiting_count = 2 THEN _classify_double_wait(tiles, final_ukeire)
        ELSE IF waiting_count = 3 THEN "sanmen"
        ELSE IF waiting_count >= 4 THEN "duomin"
        ELSE "unknown"

\* The place of entry i in sorted(efficiency_scores.items(), key = score,
\* reverse = True), counted from 0: the sort is stable, so entries of equal
\* score keep the order of the dict.
Rank(efficiency_scores, i) ==
    Cardinality({j \in 1..Len(efficiency_scores) :
        \/ efficiency_scores[j].score > efficiency_scores[i].score
        \/ efficiency_scores[j].score = efficiency_scores[i].score /\ j < i})

RECURSIVE analyze_discard_efficiency(_, _, _, _, _, _, _)

\* temp_player holds tiles and inherits missing_suit and melds; the best discard
\* by the analysis without peak theory is removed
WaitingState(tiles, first) ==
    [tiles |-> remove(tiles, first.tile), ukeire |-> first.ukeire]

\* sorted_tiles[0]
First(efficiency_scores) ==
    efficiency_scores[CHOOSE i \in 1..Len(efficiency_scores) :
                          Rank(efficiency_scores, i) = 0]

\* the nested call asking for peak theory too
nested_with_peak_theory == TRUE

\* the use_peak_theory argument of the call in _find_optimal_waiting_state
nested_use_peak_theory == FALSE

_find_optimal_waiting_state(tiles, mc, ms, type, pool) ==
    WaitingState(tiles, First(analyze_discard_efficiency(tiles, tiles, mc, ms, pool,
                                                         type, nested_use_peak_theory)))

\* the dict patterns and the locals of _analyze_waiting_patterns before the loop
NoPatterns ==
    [ryanmen_wait_count |-> 0, single_wait_count |-> 0, total_patterns |-> 0,
     pattern_diversity |-> 0, avg_final_ukeire |-> 0,
     one_shanten_types |-> NoUkeire, tenpai_types |-> {}, total_final_ukeire |-> 0]

\* what one pass of the loop of _analyze_waiting_patterns records for the kind
\* tile_key, final being the waiting state found for it
WaitingRecord(st, tile_key, count, test_shanten, final) ==
        LET final_count == SumValues(final.ukeire)
            types == st.tenpai_types
                         \cup {_classify_tenpai_pattern(final.tiles, final.ukeire)}
            total == st.total_final_ukeire + final_count * count
        IN  IF test_shanten = 1
            THEN [st EXCEPT !.one_shanten_types =
                     (tile_key :> _classify_1shanten_pattern(final.tiles, final.ukeire))
                         @@ @]
            ELSE [st EXCEPT
                     !.tenpai_types = types,
                     !.total_final_ukeire = total,
                     !.ryanmen_wait_count = IF final_count > 1 THEN @ + count ELSE @,
                     !.single_wait_count = IF final_count > 1 THEN @ ELSE @ + count,
                     !.total_patterns = Cardinality(types),
                     !.avg_final_ukeire = (ScoreUnit * total) \div Cardinality(types),
                     !.pattern_diversity = Cardinality(types)]

WaitingTest(st, tile_key, count, test_shanten, with_tile, mc, ms, type, pool) ==
    IF test_shanten \notin {0, 1} THEN st
    ELSE WaitingRecord(st, tile_key, count, test_shanten,
                       _find_optimal_waiting_state(with_tile, mc, ms, type, pool))

\* one pass of the loop of _analyze_waiting_patterns
WaitingStep(st, tile_key, count, remaining_tiles, mc, ms, type, pool) ==
    WaitingTest(st, tile_key, count,
                calculate_shanten(Append(remaining_tiles, tile_key), mc, type),
                Append(remaining_tiles, tile_key), mc, ms, type, pool)

\* the loop over ukeire.items(), the kinds in the order they were recorded
RECURSIVE WaitingLoop(_, _, _, _, _, _, _, _)
WaitingLoop(keys, st, ukeire_map, remaining_tiles, mc, ms, type, pool) ==
    IF keys = {} THEN st
    ELSE LET tile_key == MinOf(keys)
         IN  WaitingLoop(keys \ {tile_key},
                         WaitingStep(st, tile_key, ukeire_map[tile_key],
                                     remaining_tiles, mc, ms, type, pool),
                         ukeire_map, remaining_tiles, mc, ms, type, pool)

_analyze_waiting_patterns(remaining_tiles, ukeire_map, mc, ms, type, pool) ==
    WaitingLoop(DOMAIN ukeire_map, NoPatterns, ukeire_map, remaining_tiles,
                mc, ms, type, pool)

\* the match statement of _calculate_peak_theory_bonus
OneShantenBonus(pattern) ==
    CASE pattern = "surplus_tile" -> 10
      [] pattern = "complete" -> 20
      [] pattern = "headless" -> 30
      [] pattern = "floating" -> 40
      [] pattern = "seven_pairs" -> 10
      [] pattern = "seven_pairs_compound" -> 20
      [] pattern = "kokushi" -> 10
      [] OTHER -> 0

\* the bonus before max(0.0, .)
RawPeakBonus(wp) ==
    IF DOMAIN wp.one_shanten_types # {}
    THEN ScoreUnit * SumOver(DOMAIN wp.one_shanten_types,
                             [key \in DOMAIN wp.one_shanten_types |->
                                 OneShantenBonus(wp.one_shanten_types[key])])
    ELSE ScoreUnit * 8 * wp.ryanmen_wait_count
             + (wp.avg_final_ukeire * 3) \div 2
             + ScoreUnit * 5 * wp.pattern_diversity
             - (IF wp.total_patterns > 0
                THEN (ScoreUnit * 5 * wp.single_wait_count) \div wp.total_patterns
                ELSE 0)

\* the bonus returned as computed, without max(0.0, .)
_calculate_peak_theory_bonus_unclamped(discard_tile, hand, mc, ms, pool, current_shanten, type, ukeire_map) ==
    IF current_shanten > 2 THEN 0
    ELSE LET remaining_tiles == remove(hand, discard_tile)
             after_shanten == calculate_shanten(remaining_tiles, mc, type)
         IN  IF after_shanten > current_shanten THEN 0
             ELSE IF DOMAIN ukeire_map = {} THEN 0
             ELSE RawPeakBonus(_analyze_waiting_patterns(
                      remaining_tiles, ukeire_map, mc, ms, type, pool))

\* ukeire_map is the argument the caller hands down, never None; the waits
\* are looked for among its kinds
_calculate_peak_theory_bonus(discard_tile, hand, mc, ms, pool, current_shanten, type, ukeire_map) ==
    IF current_shanten > 2 THEN 0
    ELSE LET remaining_tiles == remove(hand, discard_tile)
             after_shanten == calculate_shanten(remaining_tiles, mc, type)
         IN  IF after_shanten > current_shanten THEN 0
             ELSE IF DOMAIN ukeire_map = {} THEN 0
             ELSE Max2(0, RawPeakBonus(_analyze_waiting_patterns(
                              remaining_tiles, ukeire_map, mc, ms, type, pool)))

\* sorted_tiles[:3], as places in efficiency_scores
Top3(efficiency_scores) ==
    {i \in 1..Len(efficiency_scores) : Rank(efficiency_scores, i) < 3}

\* the members of top3 within 0.1 of the top score
TiedTop(efficiency_scores) ==
    LET top_score == First(efficiency_scores).score
        diff(i) == efficiency_scores[i].score - top_score
    IN  {i \in Top3(efficiency_scores) :
            (IF diff(i) >= 0 THEN diff(i) ELSE -diff(i)) * 10 < ScoreUnit}

\* enhanced_scores: peak_bonus added to each of top3
EnhancedScores(current_shanten, ukeire_map, efficiency_scores, hand, mc, ms, pool, type) ==
    [i \in 1..Len(efficiency_scores) |->
        IF i \in Top3(efficiency_scores)
        THEN [efficiency_scores[i] EXCEPT !.score =
                 @ + _calculate_peak_theory_bonus(
                     efficiency_scores[i].tile, hand, mc, ms, pool,
                     current_shanten, type, ukeire_map)]
        ELSE efficiency_scores[i]]

\* no return for a top score without a tie
_apply_peak_theory_untied(ukeire_map, efficiency_scores, hand, mc, ms, pool, type) ==
    IF Len(efficiency_scores) = 0 THEN efficiency_scores
    ELSE IF calculate_shanten(hand, mc, type) > 2 THEN efficiency_scores
    ELSE IF Cardinality(Top3(efficiency_scores)) <= 1 THEN efficiency_scores
    ELSE EnhancedScores(calculate_shanten(hand, mc, type), ukeire_map,
                         efficiency_scores, hand, mc, ms, pool, type)

_apply_peak_theory(ukeire_map, efficiency_scores, hand, mc, ms, pool, type) ==
    IF Len(efficiency_scores) = 0 THEN efficiency_scores
    ELSE IF calculate_shanten(hand, mc, type) > 2 THEN efficiency_scores
    ELSE IF Cardinality(Top3(efficiency_scores)) <= 1 THEN efficiency_scores
    ELSE IF Cardinality(TiedTop(efficiency_scores)) <= 1 THEN efficiency_scores
    ELSE EnhancedScores(calculate_shanten(hand, mc, type), ukeire_map,
                         efficiency_scores, hand, mc, ms, pool, type)

\* one pass of the loop of analyze_discard_efficiency: efficiency_scores[tile]
\* the value (efficiency, ukeire) stored under tile
Scored(tile, current_shanten, after_shanten, ukeire_map, ms) ==
    [tile |-> tile,
     score |-> _calculate_efficiency_score(tile, current_shanten, after_shanten,
                                           SumValues(ukeire_map), ms),
     ukeire |-> ukeire_map]

ScoreEntry(tile, hand, mc, ms, pool, type, current_shanten) ==
    Scored(tile, current_shanten,
           calculate_shanten(remove(hand, tile), mc, type),
           calculate_ukeire(remove(hand, tile), mc, ms, pool, type), ms)

\* the dict efficiency_scores in insertion order: a tile met again writes the
\* same value under the key it already has
RECURSIVE ScoreLoop(_, _, _, _, _, _, _)
ScoreLoop(keys, hand, mc, ms, pool, type, current_shanten) ==
    IF keys = <<>> THEN <<>>
    ELSE <<ScoreEntry(Head(keys), hand, mc, ms, pool, type, current_shanten)>>
             \o ScoreLoop(Tail(keys), hand, mc, ms, pool, type, current_shanten)

\* available is not empty.  The ukeire handed to _apply_peak_theory is the
\* loop variable after the loop: that of the last tile of available.
LastUkeire(efficiency_scores, available) ==
    efficiency_scores[CHOOSE i \in 1..Len(efficiency_scores) :
        efficiency_scores[i].tile = available[Len(available)]].ukeire

\* the end of analyze_discard_efficiency, after the loop
PeakOrNot(current_shanten, efficiency_scores, hand, available, mc, ms, pool, type, use_peak_theory) ==
    IF current_shanten <= 2 /\ use_peak_theory
    THEN _apply_peak_theory(LastUkeire(efficiency_scores, available),
                            efficiency_scores, hand, mc, ms, pool, type)
    ELSE efficiency_scores

AnalyzeAt(current_shanten, hand, available, mc, ms, pool, type, use_peak_theory) ==
    PeakOrNot(current_shanten,
              ScoreLoop(KeyOrder(available), hand, mc, ms, pool, type,
                        current_shanten),
              hand, available, mc, ms, pool, type, use_peak_theory)

analyze_discard_efficiency(hand, available, mc, ms, pool, type, use_peak_theory) ==
    AnalyzeAt(calculate_shanten(hand, mc, type), hand, available, mc, ms, pool,
              type, use_peak_theory)

\* _apply_peak_theory goes on to the bonuses: several candidates, the top tied
PeakApplies(efficiency_scores) ==
    /\ Len(efficiency_scores) > 0
    /\ Cardinality(Top3(efficiency_scores)) > 1
    /\ Cardinality(TiedTop(efficiency_scores)) > 1

\* The lists _find_optimal_waiting_state is called with while the bonuses of
\* top3 are computed: the remainder of a candidate that does not raise the
\* shanten, with a kind of ukeire_map that brings it to test_shanten <= 1
NestedCalls(efficiency_scores, ukeire_map, hand, mc, type, current_shanten) ==
    UNION {{Append(remove(hand, efficiency_scores[i].tile), key) :
               key \in {k \in DOMAIN ukeire_map :
                   calculate_shanten(Append(remove(hand, efficiency_scores[i].tile), k),
                                     mc, type) <= 1}} :
           i \in {j \in Top3(efficiency_scores) :
                     calculate_shanten(remove(hand, efficiency_scores[j].tile), mc, type)
                         <= current_shanten}}

\* Whether a call of analyze_discard_efficiency at nesting depth level (1 for
\* the caller's own call) leads to a call at depth target.
RECURSIVE Reaches(_, _, _, _, _, _, _, _, _)

ReachesFrom(efficiency_scores, current_shanten, hand, available, mc, ms, pool, type, level, target) ==
    /\ PeakApplies(efficiency_scores)
    /\ \E tiles \in NestedCalls(efficiency_scores,
                                LastUkeire(efficiency_scores, available),
                                hand, mc, type, current_shanten) :
           Reaches(tiles, tiles, mc, ms, pool, type, nested_use_peak_theory,
                   level + 1, target)

ReachesAt(current_shanten, hand, available, mc, ms, pool, type, use_peak_theory, level, target) ==
    /\ current_shanten <= 2
    /\ use_peak_theory
    /\ ReachesFrom(ScoreLoop(KeyOrder(available), hand, mc, ms, pool, type,
                             current_shanten),
                   current_shanten, hand, available, mc, ms, pool, type, level, target)

Reaches(hand, available, mc, ms, pool, type, use_peak_theory, level, target) ==
    \/ level >= target
    \/ ReachesAt(calculate_shanten(hand, mc, type), hand, available, mc, ms, pool,
                 type, use_peak_theory, level, target)

\* Danger levels are counted in units of 1/100000, so that the products by
\* 0.7, 0.8 and 0.6 of a base level in tenths are whole numbers of units.
DangerUnit == 100000

\* the outcome of a call: the exception it raised ("" when it returned) and
\* the value it returned
Returned(v) == [raised |-> "", value |-> v]

Raised(e) == [raised |-> e, value |-> 0]

NoOutcome == Returned(0)

\* step 2 of evaluate_tile_danger_level, in tenths
BaseDanger(tile) ==
    IF is_number_tile(tile)
    THEN IF ValueOf(tile) \in 4..6 THEN 7
         ELSE IF ValueOf(tile) \in 3..7 THEN 5
         ELSE IF ValueOf(tile) \in {2, 8} THEN 3
         ELSE 1
    ELSE IF TileTypeOf(tile) = JIAN THEN 6
    ELSE 3

suji_pairs(v) ==
    CASE v \in {1, 4, 7} -> {1, 4, 7} \ {v}
      [] v \in {2, 5, 8} -> {2, 5, 8} \ {v}
      [] v \in {3, 6, 9} -> {3, 6, 9} \ {v}
      [] OTHER -> {}

\* discard_pool[-10:] and discard_pool[:5]
LastTen(pool) == SubSeq(pool, Max2(1, Len(pool) - 9), Len(pool))

FirstFive(pool) == SubSeq(pool, 1, Min2(5, Len(pool)))

\* step 3: x 0.7 when a suji partner is among the last ten discards
SujiFactor(tile, pool) ==
    IF /\ is_number_tile(tile)
       /\ \E i \in 1..Len(LastTen(pool)) :
            /\ is_number_tile(LastTen(pool)[i])
            /\ TileTypeOf(LastTen(pool)[i]) = TileTypeOf(tile)
            /\ ValueOf(LastTen(pool)[i]) \in suji_pairs(ValueOf(tile))
    THEN 7 ELSE 10

\* step 4: with four copies visible the factor 0.3 is behind a test that the
\* tile's value is one of its own neighbours, which never holds; with three
\* visible, x 0.8
KabeFactor(tile, all_visible_tiles) ==
    LET same_tile_count ==
            Cardinality({i \in 1..Len(all_visible_tiles) : all_visible_tiles[i] = tile})
        adjacent_values ==
            {v \in {ValueOf(tile) - 1, ValueOf(tile) + 1} : v \in 1..9}
    IN  IF ~is_number_tile(tile) THEN 10
        ELSE IF same_tile_count >= 4
        THEN IF ValueOf(tile) \in adjacent_values THEN 3 ELSE 10
        ELSE IF same_tile_count >= 3 THEN 8
        ELSE 10

\* step 5: x 0.6 in the first five rounds when one of the first five
\* discards is of the tile's suit and within 2 of its value
EarlyFactor(tile, pool, round_number) ==
    IF /\ round_number <= 5
       /\ \E i \in 1..Len(FirstFive(pool)) :
            /\ is_number_tile(tile)
            /\ TileTypeOf(tile) = TileTypeOf(FirstFive(pool)[i])
            /\ ValueOf(tile) - ValueOf(FirstFive(pool)[i]) \in -2..2
    THEN 6 ELSE 10

\* danger_score before step 6
DangerScore(tile, pool, all_visible_tiles, round_number) ==
    (DangerUnit \div 10000) * BaseDanger(tile) * SujiFactor(tile, pool)
        * KabeFactor(tile, all_visible_tiles) * EarlyFactor(tile, pool, round_number)

\* the name appears_in_discard is bound only on the path that returns 0.0 at
\* once; reading it in step 6 raises on every other path
appears_in_discard(tile, pool) ==
    IF \E i \in 1..Len(pool) : pool[i] = tile THEN "True" ELSE "unbound"

evaluate_tile_danger_level(tile, pool, all_visible_tiles, round_number) ==
    IF appears_in_discard(tile, pool) = "True"
    THEN Returned(0)
    ELSE IF appears_in_discard(tile, pool) = "unbound"
    THEN Raised("UnboundLocalError")
    ELSE Returned(Min2(DangerUnit,
                       Max2(0, DangerScore(tile, pool, all_visible_tiles, round_number)
                                   + 2 * (DangerUnit \div 10))))

\* The exception analyze_discard_efficiency ends with, "" when it returns.  With
\* no candidate the loop binds nothing, and the call of _apply_peak_theory
\* reads the loop variable ukeire.
analyze_discard_efficiency_raises(hand, available, mc, type, use_peak_theory) ==
    IF /\ available = <<>>
       /\ calculate_shanten(hand, mc, type) <= 2
       /\ use_peak_theory
    THEN "UnboundLocalError"
    ELSE ""

\* ShantenAI.choose_discard: the tiles it can return on each branch of
\* random.random() < calculation_accuracy.  The analysis is the default one:
\* shape "general", no discard pool, peak theory on.  Without candidates it
\* returns the first tile of the hand (0: None).
NoChoice == [branch |-> "", tile |-> 0]

Choices(sorted_first, top_choices) ==
    {[branch |-> "best", tile |-> sorted_first]}
        \cup {[branch |-> "random", tile |-> t] : t \in top_choices}

ChoicesAmong(efficiency_scores) ==
    Choices(First(efficiency_scores).tile,
            {efficiency_scores[i].tile : i \in Top3(efficiency_scores)})

\* efficiency_scores is the analysis of the candidates, when there are any
choose_discard(hand, available, efficiency_scores) ==
    IF available = <<>>
    THEN {[branch |-> "none", tile |-> IF hand = <<>> THEN 0 ELSE hand[1]]}
    ELSE ChoicesAmong(efficiency_scores)

----------------------------------------------------------------------------
(* GameEngine: src/game/game_engine.py *)

\* GameState
WAITING == "waiting"

DEALING == "dealing"

TILE_EXCHANGE == "tile_exchange"

MISSING_SUIT_SELECTION == "missing_suit_selection"

PLAYING == "playing"

WAITING_ACTION == "waiting_action"

GAME_OVER == "game_over"

\* GameMode
TRAINING == "training"

COMPETITIVE == "competitive"

\* PlayerType
HUMAN == "human"

AI_HARD == "ai_hard"

AI_TRAINER == "ai_trainer"

\* the seats of the four players
Seats == 0..3

\* Player.__init__ and Player.reset: no tiles, no missing suit (-1 is None)
Player(player_type) ==
    [player_type |-> player_type, hand_tiles |-> <<>>, missing_suit |-> -1]

\* GameEngine.__init__: no deck, no rule and no players (players = <<>>
\* stands for the three of them, which setup_game sets together)
NewEngine ==
    [state |-> WAITING, mode |-> COMPETITIVE, rule_type |-> "sichuan",
     deck |-> <<>>, players |-> <<>>, current_player_index |-> 0,
     round_number |-> 0, discard_pool |-> <<>>,
     exchange_tiles |-> <<>>, exchange_direction |-> 1,
     missing_suits |-> <<>>, dealer_index |-> 0,
     last_game_winners |-> <<>>, last_game_winner_tile |-> 0,
     is_first_game |-> TRUE]

\* what a call hands back: the engine after it and the value returned
Outcome(e, result) == [engine |-> e, result |-> result]

\* the order in which ALL_TILES lists the kinds
KindAt(i) ==
    IF i <= 27 THEN Tile((i - 1) \div 9, ((i - 1) % 9) + 1)
    ELSE IF i <= 31 THEN Tile(FENG, i - 27) ELSE Tile(JIAN, i - 31)

\* the first n values of f, as a list
ListOf(f, n) == SubSeq(f, 1, n)

\* the size of the deck: four of each of the 27 numbered kinds (sichuan) or
\* of each of the 34 kinds of ALL_TILES
DeckSize(rule_type) == 4 * (IF rule_type = "sichuan" THEN 27 ELSE 34)

\* Deck._initialize_deck before the shuffle: kind by kind, four of each
_initialize_deck(rule_type) ==
    ListOf([i \in 1..DeckSize(rule_type) |-> KindAt(((i - 1) \div 4) + 1)],
           DeckSize(rule_type))

\* Deck.shuffle: random.shuffle yields any order; the orders dealt from here
\* read the fresh deck at a stride coprime to its length
shuffle(tiles, stride) ==
    ListOf([i \in 1..Len(tiles) |-> tiles[((i * stride) % Len(tiles)) + 1]], Len(tiles))

RECURSIVE Reverse(_)
Reverse(s) ==
    IF s = <<>> THEN <<>> ELSE <<s[Len(s)]>> \o Reverse(SubSeq(s, 1, Len(s) - 1))

\* Deck.draw_multiple: tiles.pop() count times, while tiles are left
draw_multiple(tiles, count) ==
    LET n == Min2(count, Len(tiles))
    IN  [drawn |-> Reverse(SubSeq(tiles, Len(tiles) - n + 1, Len(tiles))),
         tiles |-> SubSeq(tiles, 1, Len(tiles) - n)]

\* SichuanRule.get_initial_hand_size, NationalRule.get_initial_hand_size
get_initial_hand_size == 13

\* Player.add_tiles with the tiles of one draw, which leave the deck
GiveTiles(e, p, draw) ==
    [e EXCEPT !.deck = draw.tiles,
              !.players[p].hand_tiles = sort_hand(@ \o draw.drawn)]

RECURSIVE DealFrom(_, _)
DealFrom(e, p) ==
    IF p \notin Seats THEN e
    ELSE DealFrom(GiveTiles(e, p, draw_multiple(e.deck, get_initial_hand_size)), p + 1)

\* the dealer's extra tile
DealExtra(e) == GiveTiles(e, e.dealer_index, draw_multiple(e.deck, 1))

_deal_initial_cards(e) == DealExtra(DealFrom(e, 0))

\* Player.has_tile_in_hand
has_tile_in_hand(hand, tile) == \E i \in 1..Len(hand) : hand[i] = tile

_is_same_suit(tiles) ==
    tiles = <<>> \/ \A i \in 1..Len(tiles) : TileTypeOf(tiles[i]) = TileTypeOf(tiles[1])

\* the tiles of one suit in a hand, in the order of the hand
RECURSIVE OfSuit(_, _)
OfSuit(hand, suit) ==
    IF hand = <<>> THEN <<>>
    ELSE (IF TileTypeOf(Head(hand)) = suit THEN <<Head(hand)>> ELSE <<>>)
             \o OfSuit(Tail(hand), suit)

FirstThree(tiles) == SubSeq(tiles, 1, Min2(3, Len(tiles)))

\* _start_playing: PLAYING, the dealer to move, an empty discard pool, and
\* each player's missing_suit taken from missing_suits where it is not set;
\* no callback is registered, so _start_player_turn changes nothing
_start_playing(e) ==
    [e EXCEPT !.state = PLAYING,
              !.current_player_index = e.dealer_index,
              !.discard_pool = <<>>,
              !.players = [p \in Seats |->
                  IF @[p].missing_suit = -1 /\ p \in DOMAIN e.missing_suits
                  THEN [@[p] EXCEPT !.missing_suit = e.missing_suits[p]]
                  ELSE @[p]]]

submit_missing_suit(e, player_id, suit) ==
    IF e.state # MISSING_SUIT_SELECTION THEN Outcome(e, FALSE)
    ELSE IF player_id \notin 0..3 THEN Outcome(e, FALSE)
    ELSE IF suit \notin {WAN, TONG, TIAO} THEN Outcome(e, FALSE)
    ELSE LET noted == [e EXCEPT !.missing_suits[player_id] = suit]
         IN  Outcome(IF \A p \in DOMAIN noted.missing_suits : noted.missing_suits[p] # -1
                     THEN _start_playing(noted) ELSE noted,
                     TRUE)

\* min(suit_counts.keys(), key=...): the first of WAN, TONG, TIAO that no
\* other suit undercuts
FewestSuit(hand) ==
    MinOf({s \in NumberSuits :
        \A o \in NumberSuits : Len(OfSuit(hand, s)) <= Len(OfSuit(hand, o))})

\* _ai_choose_missing_suit: the suit of the AI class when _try_ai_missing_suit
\* gives one (tried, -1 for None), else the suit with the fewest tiles
_ai_choose_missing_suit(e, player_id, tried) ==
    submit_missing_suit(e, player_id,
        IF tried \in NumberSuits THEN tried
        ELSE FewestSuit(e.players[player_id].hand_tiles)).engine

RECURSIVE AutoMissingFrom(_, _, _)
AutoMissingFrom(e, i, suits_tried) ==
    IF i \notin Seats THEN e
    ELSE AutoMissingFrom(
             IF e.players[i].player_type # HUMAN
             THEN _ai_choose_missing_suit(e, i, suits_tried[i]) ELSE e,
             i + 1, suits_tried)

_ai_auto_choose_missing_suit(e, suits_tried) == AutoMissingFrom(e, 0, suits_tried)

_start_missing_suit_selection(e, suits_tried) ==
    _ai_auto_choose_missing_suit(
        [e EXCEPT !.missing_suits = [p \in DOMAIN @ |-> -1]], suits_tried)

\* Player.remove_tile for each tile in turn
Took(tile, rest) == [hand |-> rest.hand, removed |-> <<tile>> \o rest.removed]

RECURSIVE RemoveEach(_, _)
RemoveEach(hand, tiles) ==
    IF tiles = <<>> THEN [hand |-> hand, removed |-> <<>>]
    ELSE IF has_tile_in_hand(hand, Head(tiles))
         THEN Took(Head(tiles), RemoveEach(remove(hand, Head(tiles)), Tail(tiles)))
         ELSE RemoveEach(hand, Tail(tiles))

\* the player whose tiles go to target: target = (player_id + direction) % 4
GiverTo(target, direction) == (target - direction) % 4

\* the hand of player p after the exchange: what removing its own submission
\* leaves, with the tiles removed from the giver's hand, sorted
HandAfterExchange(e, p) ==
    sort_hand(
        (IF p \in DOMAIN e.exchange_tiles
         THEN RemoveEach(e.players[p].hand_tiles, e.exchange_tiles[p]).hand
         ELSE e.players[p].hand_tiles)
        \o (IF GiverTo(p, e.exchange_direction) \in DOMAIN e.exchange_tiles
            THEN RemoveEach(e.players[GiverTo(p, e.exchange_direction)].hand_tiles,
                            e.exchange_tiles[GiverTo(p, e.exchange_direction)]).removed
            ELSE <<>>))

_execute_tile_exchange(e, suits_tried) ==
    _start_missing_suit_selection(
        [e EXCEPT !.players = [p \in Seats |->
                      [@[p] EXCEPT !.hand_tiles = HandAfterExchange(e, p)]],
                  !.state = MISSING_SUIT_SELECTION],
        suits_tried)

\* three submissions are taken for all of them
SomeSubmitted(exchange_tiles) == Cardinality(DOMAIN exchange_tiles) >= 3

\* len(self.exchange_tiles) == 4
AllSubmitted(exchange_tiles) == Cardinality(DOMAIN exchange_tiles) = 4

\* exchange_tiles[player_id] = tiles
Put(dict, key, value) ==
    [k \in DOMAIN dict \cup {key} |-> IF k = key THEN value ELSE dict[k]]

submit_exchange_tiles(e, player_id, tiles, suits_tried) ==
    IF e.state # TILE_EXCHANGE THEN Outcome(e, FALSE)
    ELSE IF player_id \notin 0..3 THEN Outcome(e, FALSE)
    ELSE IF Len(tiles) # 3 THEN Outcome(e, FALSE)
    ELSE IF ~_is_same_suit(tiles) THEN Outcome(e, FALSE)
    ELSE IF \E i \in 1..Len(tiles) :
                ~has_tile_in_hand(e.players[player_id].hand_tiles, tiles[i])
         THEN Outcome(e, FALSE)
    ELSE LET noted == [e EXCEPT !.exchange_tiles = Put(@, player_id, tiles)]
         IN  Outcome(IF AllSubmitted(noted.exchange_tiles)
                     THEN _execute_tile_exchange(noted, suits_tried) ELSE noted,
                     TRUE)

\* _try_ai_exchange_tiles: the AI class names three tiles of one suit of the
\* hand (tried, the suit), or nothing that passes the validation (<<>>)
_try_ai_exchange_tiles(hand, tried) ==
    IF tried \in NumberSuits /\ Len(OfSuit(hand, tried)) >= 3
    THEN FirstThree(OfSuit(hand, tried)) ELSE <<>>

\* max(suits.keys(), key=...): suits in the order they come up in the
\* sorted hand, the first that no other suit exceeds
SuitsHeld(hand) == {TileTypeOf(hand[i]) : i \in 1..Len(hand)}

LargestSuit(hand) ==
    MinOf({s \in SuitsHeld(hand) :
        \A o \in SuitsHeld(hand) : Len(OfSuit(hand, o)) <= Len(OfSuit(hand, s))})

\* the default of _ai_choose_exchange_tiles: suits[max_suit][:3]
DefaultExchange(hand) ==
    IF hand = <<>> THEN <<>> ELSE FirstThree(OfSuit(hand, LargestSuit(hand)))

Exchanged(e, player_id, tiles, suits_tried) ==
    IF Len(tiles) = 3 THEN submit_exchange_tiles(e, player_id, tiles, suits_tried).engine
    ELSE e

_ai_choose_exchange_tiles(e, player_id, tried, suits_tried) ==
    IF _try_ai_exchange_tiles(e.players[player_id].hand_tiles, tried) # <<>>
    THEN Exchanged(e, player_id,
             _try_ai_exchange_tiles(e.players[player_id].hand_tiles, tried), suits_tried)
    ELSE Exchanged(e, player_id,
             DefaultExchange(e.players[player_id].hand_tiles), suits_tried)

RECURSIVE AutoExchangeFrom(_, _, _, _)
AutoExchangeFrom(e, i, tiles_tried, suits_tried) ==
    IF i \notin Seats THEN e
    ELSE AutoExchangeFrom(
             IF e.players[i].player_type # HUMAN
             THEN _ai_choose_exchange_tiles(e, i, tiles_tried[i], suits_tried) ELSE e,
             i + 1, tiles_tried, suits_tried)

_ai_auto_exchange(e, tiles_tried, suits_tried) ==
    AutoExchangeFrom(e, 0, tiles_tried, suits_tried)

_start_tile_exchange(e, direction, tiles_tried, suits_tried) ==
    _ai_auto_exchange(
        [e EXCEPT !.exchange_direction = direction, !.exchange_tiles = <<>>],
        tiles_tried, suits_tried)

\* _determine_dealer: random in the first game, else the first winner of the
\* last game or (several winners on one tile) the lowest seat among them
_determine_dealer(e, drawn_dealer) ==
    LET dealer ==
            IF e.is_first_game THEN drawn_dealer
            ELSE IF Len(e.last_game_winners) > 1 /\ e.last_game_winner_tile # 0
                 THEN MinOf({e.last_game_winners[i] : i \in 1..Len(e.last_game_winners)})
            ELSE IF e.last_game_winners # <<>> THEN e.last_game_winners[1]
            ELSE e.dealer_index
    IN  [e EXCEPT !.dealer_index = dealer, !.current_player_index = dealer]

\* start_new_game up to the dealing: round counted, dealer determined,
\* players and deck reset, dictionaries initialised, state DEALING
Dealing(e, stride) ==
    [e EXCEPT !.round_number = @ + 1,
              !.players = [p \in Seats |-> Player(@[p].player_type)],
              !.deck = shuffle(_initialize_deck(e.rule_type), stride),
              !.exchange_tiles = <<>>,
              !.missing_suits = [p \in Seats |-> -1],
              !.state = DEALING]

Dealt(e, drawn_dealer, stride) ==
    _deal_initial_cards(Dealing(_determine_dealer(e, drawn_dealer), stride))

start_new_game(e, random, tiles_tried, suits_tried) ==
    IF e.players = <<>> THEN Outcome(e, FALSE)
    ELSE IF e.rule_type = "sichuan"
         THEN Outcome(_start_tile_exchange(
                          [Dealt(e, random.dealer, random.stride) EXCEPT !.state = TILE_EXCHANGE],
                          random.direction, tiles_tried, suits_tried),
                      TRUE)
         ELSE Outcome(_start_playing(
                          [Dealt(e, random.dealer, random.stride) EXCEPT !.state = PLAYING]),
                      TRUE)

\* setup_game: the rule, a deck, the four players of the mode, WAITING
setup_game(e, mode, rule_type) ==
    [e EXCEPT !.mode = mode,
              !.rule_type = rule_type,
              !.deck = shuffle(_initialize_deck(rule_type), 1),
              !.players = [p \in Seats |->
                  Player(IF p = 0 THEN HUMAN
                         ELSE IF p = 1 /\ mode = TRAINING THEN AI_TRAINER
                         ELSE AI_HARD)],
              !.state = WAITING]

\* SichuanRule.can_discard over the hand: the list the game hands to the AI
can_discard(hand, ms, tile) ==
    /\ \E i \in 1..Len(hand) : hand[i] = tile
    /\ ~(/\ ms # -1
         /\ \E i \in 1..Len(hand) : TileTypeOf(hand[i]) = ms
         /\ TileTypeOf(tile) # ms)

\* The playing phase.  The engine's state here is what the handlers of the
\* phase read: the scores and the tallies of wins and losses, which they
\* only write, are left out.

\* GameAction
DISCARD == "discard"

PENG == "peng"

GANG == "gang"

WIN == "win"

PASS == "pass"

\* Meld: the meld_type ("peng" for MeldType.PENG, "gang" for MeldType.GANG),
\* the tiles and whether they lie open
Meld(meld_type, tiles, exposed) ==
    [meld_type |-> meld_type, tiles |-> tiles, exposed |-> exposed]

\* x in list
Has(list, x) == \E i \in 1..Len(list) : list[i] = x

\* sum(1 for t in self.hand_tiles if t == tile)
CopiesHeld(hand, tile) == Cardinality({i \in 1..Len(hand) : hand[i] = tile})

\* Player.can_peng
can_peng(hand, tile) == CopiesHeld(hand, tile) >= 2

\* Player.can_gang
can_gang(hand, tile) == CopiesHeld(hand, tile) >= 3

\* Player.can_hidden_gang: with a tile, that tile if the hand holds four of
\* it; without one (0), every kind the hand holds four of
can_hidden_gang(hand, tile) ==
    IF tile # 0 THEN (IF CopiesHeld(hand, tile) >= 4 THEN <<tile>> ELSE <<>>)
    ELSE KeyOrder(SelectSeq(hand, LAMBDA t : CopiesHeld(hand, t) >= 4))

\* the hand without its first n copies of the tile
RECURSIVE RemoveCopies(_, _, _)
RemoveCopies(hand, tile, n) ==
    IF n = 0 \/ ~Has(hand, tile) THEN hand
    ELSE RemoveCopies(remove(hand, tile), tile, n - 1)

\* n copies of a tile
Repeated(tile, n) == [i \in 1..n |-> tile]

\* Player.make_peng, for a player who can_peng
make_peng(player, tile) ==
    [player EXCEPT !.hand_tiles = RemoveCopies(@, tile, 2),
                   !.melds = Append(@, Meld("peng", Repeated(tile, 3), TRUE))]

\* Player.make_gang, for a player who can_gang
make_gang(player, tile) ==
    [player EXCEPT !.hand_tiles = RemoveCopies(@, tile, 3),
                   !.melds = Append(@, Meld("gang", Repeated(tile, 4), TRUE))]

\* Player.make_hidden_gang, for a player who can_hidden_gang
make_hidden_gang(player, tile) ==
    [player EXCEPT !.hand_tiles = RemoveCopies(@, tile, 4),
                   !.melds = Append(@, Meld("gang", Repeated(tile, 4), FALSE))]

\* the tiles of all melds of a player, meld after meld
RECURSIVE MeldTiles(_)
MeldTiles(melds) ==
    IF melds = <<>> THEN <<>> ELSE Head(melds).tiles \o MeldTiles(Tail(melds))

\* SichuanRule._check_missing_suit: a missing suit is chosen and neither the
\* hand nor a meld holds a tile of it
_check_missing_suit(player) ==
    /\ player.missing_suit \in NumberSuits
    /\ ~\E i \in 1..Len(player.hand_tiles) :
           TileTypeOf(player.hand_tiles[i]) = player.missing_suit
    /\ ~\E i \in 1..Len(MeldTiles(player.melds)) :
           TileTypeOf(MeldTiles(player.melds)[i]) = player.missing_suit

\* SichuanRule._is_seven_pairs: 14 tiles, seven kinds, two of each
_is_seven_pairs(tiles) ==
    /\ Len(tiles) = 14
    /\ Cardinality({tiles[i] : i \in 1..Len(tiles)}) = 7
    /\ \A i \in 1..Len(tiles) : CopiesHeld(tiles, tiles[i]) = 2

\* SichuanRule.can_win(player, tile), tile = 0 for None
can_win(player, tile) ==
    LET tested == IF tile = 0 THEN player.hand_tiles
                  ELSE Append(player.hand_tiles, tile)
    IN  /\ _check_missing_suit(player)
        /\ \/ Len(player.melds) = 0 /\ _is_seven_pairs(tested)
           \/ _check_win_pattern_with_melds(tested, Len(player.melds))

\* _record_game_result
_record_game_result(e, winners, winner_tile) ==
    [e EXCEPT !.last_game_winners = winners,
              !.last_game_winner_tile = winner_tile,
              !.is_first_game = FALSE]

\* _handle_draw_game: GAME_OVER, recorded without winners
_handle_draw_game(e) ==
    _record_game_result([e EXCEPT !.state = GAME_OVER], <<>>, 0)

\* _remove_tile_from_discard_pool: the first entry of the tile goes
_remove_tile_from_discard_pool(e, tile) ==
    IF \E i \in 1..Len(e.discard_pool) : e.discard_pool[i][1] = tile
    THEN LET at == MinOf({i \in 1..Len(e.discard_pool) : e.discard_pool[i][1] = tile})
         IN  [e EXCEPT !.discard_pool =
                 SubSeq(@, 1, at - 1) \o SubSeq(@, at + 1, Len(@))]
    ELSE e

\* the loop of _skip_to_next_active_player
RECURSIVE SkipFrom(_, _)
SkipFrom(e, attempts) ==
    IF attempts >= 4 THEN _handle_draw_game(e)
    ELSE IF Has(e.active_players, (e.current_player_index + 1) % 4)
         THEN [e EXCEPT !.current_player_index = (@ + 1) % 4]
         ELSE SkipFrom([e EXCEPT !.current_player_index = (@ + 1) % 4], attempts + 1)

_skip_to_next_active_player(e) == SkipFrom(e, 0)

\* Deck.draw_tile and Player.add_tile for the current player, or the drawn
\* game of an empty deck
DrawForCurrent(e) ==
    IF e.deck = <<>> THEN _handle_draw_game(e)
    ELSE [e EXCEPT !.deck = SubSeq(@, 1, Len(@) - 1),
                   !.players[e.current_player_index].hand_tiles =
                       add_tile(@, e.deck[Len(e.deck)]),
                   !.last_drawn_tile = e.deck[Len(e.deck)]]

\* the second skip of _next_player, when the current player is not active
SkipAgain(e) ==
    IF Has(e.active_players, e.current_player_index) THEN e
    ELSE _skip_to_next_active_player(e)

\* _next_player: with two or more active players the next active one draws
_next_player(e) ==
    IF Len(e.active_players) > 1
    THEN DrawForCurrent(SkipAgain(_skip_to_next_active_player(e)))
    ELSE e

\* _check_response_actions: for every other active player, what it may do
\* with the discarded tile
ResponsesOf(player, tile) ==
    (IF can_win(player, tile) THEN <<WIN>> ELSE <<>>)
        \o (IF can_gang(player.hand_tiles, tile) THEN <<GANG>> ELSE <<>>)
        \o (IF can_peng(player.hand_tiles, tile) THEN <<PENG>> ELSE <<>>)

_check_response_actions(e, discard_player, tile) ==
    [i \in {p \in Seats : /\ p # discard_player
                          /\ Has(e.active_players, p)
                          /\ ResponsesOf(e.players[p], tile) # <<>>}
        |-> ResponsesOf(e.players[i], tile)]

\* _execute_discard after the tile has left the hand
Discarded(e, player_id, tile) ==
    [e EXCEPT !.players[player_id].hand_tiles = remove(@, tile),
              !.discard_pool = Append(@, <<tile, player_id>>),
              !.discarded_tiles = Append(@, tile),
              !.last_discarded_tile = tile,
              !.last_discard_player = player_id]

_execute_discard(e, player_id, tile) ==
    IF ~has_tile_in_hand(e.players[player_id].hand_tiles, tile) THEN Outcome(e, FALSE)
    ELSE IF DOMAIN _check_response_actions(Discarded(e, player_id, tile), player_id, tile) # {}
         THEN Outcome([Discarded(e, player_id, tile) EXCEPT !.state = WAITING_ACTION], TRUE)
         ELSE Outcome(_next_player(Discarded(e, player_id, tile)), TRUE)

\* _handle_response_timeout
_handle_response_timeout(e) == _next_player([e EXCEPT !.state = PLAYING])

\* _execute_pass
_execute_pass(e, player_id) ==
    Outcome(IF e.state = WAITING_ACTION THEN _handle_response_timeout(e) ELSE e, TRUE)

\* _execute_peng
_execute_peng(e, player_id) ==
    IF e.last_discarded_tile = 0 THEN Outcome(e, FALSE)
    ELSE IF ~can_peng(e.players[player_id].hand_tiles, e.last_discarded_tile)
         THEN Outcome(e, FALSE)
    ELSE Outcome(
             [_remove_tile_from_discard_pool(e, e.last_discarded_tile)
                 EXCEPT !.players[player_id] = make_peng(@, e.last_discarded_tile),
                        !.current_player_index = player_id,
                        !.last_discarded_tile = 0,
                        !.last_discard_player = -1,
                        !.last_drawn_tile = 0,
                        !.state = PLAYING],
             TRUE)

\* _execute_gang after the meld is made: the replacement tile is drawn and
\* the turn goes to the player, or the game is drawn on an empty deck
AfterGang(e, player_id) ==
    IF e.deck = <<>> THEN _handle_draw_game(e)
    ELSE [DrawForCurrent([e EXCEPT !.current_player_index = player_id])
             EXCEPT !.last_discarded_tile = 0,
                    !.last_discard_player = -1,
                    !.state = PLAYING]

\* _execute_gang: an open gang of the last discard when the player can make
\* one, else a hidden gang of the named tile by the current player
_execute_gang(e, player_id, tile) ==
    IF /\ e.last_discarded_tile # 0
       /\ player_id # e.last_discard_player
       /\ can_gang(e.players[player_id].hand_tiles, e.last_discarded_tile)
    THEN Outcome(AfterGang(
                     [_remove_tile_from_discard_pool(e, e.last_discarded_tile)
                         EXCEPT !.players[player_id] = make_gang(@, e.last_discarded_tile)],
                     player_id),
                 TRUE)
    ELSE IF tile # 0 /\ player_id = e.current_player_index
    THEN IF can_hidden_gang(e.players[player_id].hand_tiles, tile) = <<>>
         THEN Outcome(e, FALSE)
         ELSE Outcome(AfterGang(
                          [e EXCEPT !.players[player_id] = make_hidden_gang(@, tile)],
                          player_id),
                      TRUE)
    ELSE Outcome(e, FALSE)

\* the four players of f, seat by seat
Seated(f) == (0 :> f[0]) @@ (1 :> f[1]) @@ (2 :> f[2]) @@ (3 :> f[3])

\* list.remove(x) when x is in the list
Dropped(list, x) == IF Has(list, x) THEN remove(list, x) ELSE list

\* append(x) unless x is in the list
Noted(list, x) == IF Has(list, x) THEN list ELSE Append(list, x)

\* is_self_draw of _execute_win
is_self_draw(e, player_id) ==
    player_id = e.current_player_index /\ e.state = PLAYING

\* the other players who win on the same discard (one discard, several
\* winners): not the discarder, not winners already, able to win with it
OtherWinners(e, player_id) ==
    IF e.last_discarded_tile # 0 /\ ~is_self_draw(e, player_id)
    THEN {o \in Seats : /\ o # player_id
                        /\ o # e.last_discard_player
                        /\ ~e.players[o].is_winner
                        /\ can_win(e.players[o], e.last_discarded_tile)}
    ELSE {}

\* the players in hand order, each in turn a winner: is_winner set, noted in
\* winners, dropped from active_players
RECURSIVE MadeWinners(_, _, _)
MadeWinners(e, first, others) ==
    IF first = -1 /\ others = {} THEN e
    ELSE LET w == IF first # -1 THEN first ELSE MinOf(others)
         IN  MadeWinners([e EXCEPT !.players[w].is_winner = TRUE,
                                   !.winners = Noted(@, w),
                                   !.active_players = Dropped(@, w)],
                         -1, others \ {w})

\* the winning tile goes into the hand of the winner named in the call, out
\* of the discard pool, and into the hand of every other winner as well
WinningTileTaken(e, player_id) ==
    IF ~is_self_draw(e, player_id) /\ e.last_discarded_tile # 0
    THEN [_remove_tile_from_discard_pool(e, e.last_discarded_tile)
             EXCEPT !.players = Seated([p \in Seats |->
                 IF p = player_id \/ p \in OtherWinners(e, player_id)
                 THEN [@[p] EXCEPT !.hand_tiles = add_tile(@, e.last_discarded_tile)]
                 ELSE @[p]])]
    ELSE e

\* the end of the game with at most one active player left: that player is
\* the last of winners, nobody is active, the result is recorded
GameOver(e, winner_tile) ==
    _record_game_result(
        [e EXCEPT !.state = GAME_OVER,
                  !.winners = IF Len(e.active_players) = 1
                              THEN Noted(@, e.active_players[1]) ELSE @,
                  !.active_players = <<>>],
        IF Len(e.active_players) = 1
        THEN Noted(e.winners, e.active_players[1]) ELSE e.winners,
        winner_tile)

\* _execute_win after the winners are made: the game is over, or goes on
\* with the next active player after the winner named in the call
AfterWin(e, player_id, winner_tile) ==
    IF Len(e.active_players) <= 1 THEN GameOver(e, winner_tile)
    ELSE _next_player([e EXCEPT !.current_player_index = player_id,
                                !.state = PLAYING])

_execute_win(e, player_id) ==
    IF can_win(e.players[player_id],
               IF is_self_draw(e, player_id) THEN 0 ELSE e.last_discarded_tile)
    THEN Outcome(AfterWin(MadeWinners(WinningTileTaken(e, player_id), player_id,
                                      OtherWinners(e, player_id)),
                          player_id,
                          IF is_self_draw(e, player_id) THEN e.last_drawn_tile
                          ELSE e.last_discarded_tile),
                 TRUE)
    ELSE Outcome(e, FALSE)

\* can_player_action
can_player_action(e, player_id, action, tile) ==
    IF action = PASS THEN TRUE
    ELSE IF e.state \notin {PLAYING, WAITING_ACTION} THEN FALSE
    ELSE IF action = DISCARD
    THEN /\ e.state = PLAYING
         /\ player_id = e.current_player_index
         /\ tile # 0
         /\ can_discard(e.players[player_id].hand_tiles,
                        e.players[player_id].missing_suit, tile)
    ELSE IF action = PENG
    THEN /\ player_id # e.last_discard_player
         /\ e.last_discarded_tile # 0
         /\ can_peng(e.players[player_id].hand_tiles, e.last_discarded_tile)
    ELSE IF action = GANG
    THEN \/ /\ e.last_discarded_tile # 0
            /\ player_id # e.last_discard_player
            /\ can_gang(e.players[player_id].hand_tiles, e.last_discarded_tile)
         \/ /\ player_id = e.current_player_index
            /\ e.state = PLAYING
            /\ can_hidden_gang(e.players[player_id].hand_tiles, 0) # <<>>
    ELSE IF action = WIN
    THEN IF is_self_draw(e, player_id) THEN can_win(e.players[player_id], 0)
         ELSE can_win(e.players[player_id], e.last_discarded_tile)
    ELSE FALSE

\* execute_player_action
execute_player_action(e, player_id, action, tile) ==
    IF action = PASS THEN _execute_pass(e, player_id)
    ELSE IF ~can_player_action(e, player_id, action, tile) THEN Outcome(e, FALSE)
    ELSE IF action = DISCARD THEN _execute_discard(e, player_id, tile)
    ELSE IF action = PENG THEN _execute_peng(e, player_id)
    ELSE IF action = GANG THEN _execute_gang(e, player_id, tile)
    ELSE IF action = WIN THEN _execute_win(e, player_id)
    ELSE Outcome(e, FALSE)

\* no call has returned yet
NoReturn == [op |-> "", player_id |-> -1, result |-> FALSE]

----------------------------------------------------------------------------
(* The inputs: hands dealt from a wall, hands built for the seven-pairs and *)
(* thirteen-orphans shapes, and the hands of src/test_shanten_ai.py         *)

\* the number of wall tiles hands are dealt from
WallSize == 11

WallTiles == <<1, 2, 3, 3, 5, 5, 11, 12, 13, 31, 31, 5, 7, 21, 14, 9>>

Wall == SubSeq(WallTiles, 1, Min2(WallSize, Len(WallTiles)))

RECURSIVE SubSeqsOf(_, _)
SubSeqsOf(w, n) ==
    IF n = 0 THEN {<<>>}
    ELSE IF Len(w) < n THEN {}
    ELSE {<<Head(w)>> \o s : s \in SubSeqsOf(Tail(w), n - 1)}
             \cup SubSeqsOf(Tail(w), n)

\* the hands of n tiles a player can hold: dealt tiles, kept sorted by add_tile
Hands(n) == {sort_hand(s) : s \in SubSeqsOf(Wall, n)}

\* the tiles can_win is asked about
DrawKinds == {1, 4, 5, 13, 31, 41}

\* the exposed-meld counts of the dealt hands
MeldCounts == {2, 3, 4}

HandSize(k) == 13 - 3 * k

AtMostFour(tiles) == \A key \in ALL_TILES : _count_tiles(tiles)[key] <= 4

Input(h, k, n, type, ms, pool) ==
    [hand |-> h, k |-> k, new |-> n, type |-> type, ms |-> ms, pool |-> pool]

\* a sorted hand of 13 - 3k tiles, alone or with a tile to win on, or a sorted
\* hand of 14 - 3k tiles (after a draw)
GeneralInputs ==
    UNION {
        {Input(h, k, n, "general", -1, <<>>) :
            h \in Hands(HandSize(k)), n \in {0} \cup DrawKinds}
        \cup {Input(h, k, 0, "general", -1, <<>>) :
            h \in Hands(HandSize(k) + 1)} : k \in MeldCounts}

\* test_shanten_calculation: the hands of the general shape
TestHandsGeneral ==
    {<<1, 2, 3, 4, 5, 6, 7, 8, 9, 11, 11, 12, 13>>,
     <<1, 1, 1, 2, 3, 4, 5, 6, 7, 8, 9, 11, 11>>,
     <<1, 2, 3, 4, 5, 6, 7, 7, 7, 11, 12, 13, 31>>,
     <<1, 2, 3, 4, 5, 6, 8, 9, 27, 28, 29, 41, 41>>,
     <<1, 2, 3, 4, 6, 11, 12, 13, 42, 42, 42, 43, 43>>,
     <<1, 2, 3, 4, 5, 6, 7, 8, 11, 11, 12, 13, 15>>,
     <<1, 1, 2, 3, 4, 5, 11, 12, 13, 27, 28, 29, 31>>,
     <<1, 3, 5, 7, 9, 11, 12, 13, 25, 26, 27, 31, 33>>,
     <<1, 1, 2, 3, 5, 6, 8, 9, 11, 13, 15, 19, 19>>,
     <<1, 3, 5, 7, 9, 12, 14, 16, 18, 21, 23, 25, 25>>,
     <<1, 2, 7, 8, 11, 12, 17, 21, 22, 27, 32, 33, 34>>,
     <<1, 2, 7, 11, 12, 17, 21, 22, 27, 31, 32, 33, 34>>,
     <<1, 4, 7, 11, 14, 17, 21, 24, 27, 31, 32, 33, 34>>}

\* test_shanten_calculation: the hands of the seven-pairs shape
TestHandsPairs ==
    {<<1, 1, 2, 2, 3, 3, 4, 4, 5, 5, 6, 6, 7>>,
     <<31, 31, 32, 32, 33, 33, 34, 34, 41, 41, 42, 42, 43>>,
     <<1, 1, 2, 2, 3, 3, 4, 4, 5, 5, 6, 7, 8>>,
     <<1, 1, 2, 2, 3, 3, 4, 4, 5, 6, 7, 8, 9>>,
     <<1, 1, 2, 2, 3, 3, 4, 5, 6, 7, 8, 9, 31>>,
     <<1, 1, 2, 2, 3, 4, 5, 6, 7, 8, 9, 31, 32>>}

\* test_shanten_calculation: the hands of the thirteen-orphans shape
TestHandsKokushi ==
    {<<1, 9, 11, 19, 21, 29, 31, 32, 33, 34, 41, 42, 43>>,
     <<1, 1, 9, 11, 19, 21, 29, 31, 32, 33, 34, 41, 42>>,
     <<1, 1, 9, 11, 19, 21, 29, 31, 32, 33, 34, 41, 41>>}

\* the tiles drawn onto a test hand
TestDraws == {0, 1, 7, 14, 43}

TestInputs ==
    {Input(h, 0, n, "general", -1, <<>>) : h \in TestHandsGeneral, n \in TestDraws}
        \cup {Input(h, 0, n, "pairs", -1, <<>>) : h \in TestHandsPairs, n \in TestDraws}
        \cup {Input(h, 0, n, "kokushi", -1, <<>>) : h \in TestHandsKokushi, n \in TestDraws}

\* Hands with no two tiles of one suit within two ranks of each other: ranks
\* o, o + 3, o + 6 of each suit and four winds, alone or with a dragon drawn.
ScatteredInputs ==
    {Input(<<a, a + 3, a + 6, 10 + b, 13 + b, 16 + b, 20 + c, 23 + c, 26 + c,
             31, 32, 33, 34>>, 0, n, "general", -1, <<>>) :
        a \in 1..3, b \in 1..3, c \in 1..3, n \in {0, 41}}

\* the number of kinds the last tiles of a seven-pairs hand are chosen from
FreeKinds == 5

FreeTiles == <<5, 11, 4, 12, 31, 6, 13>>

\* the multisets of n tiles over the first m kinds of FreeTiles
RECURSIVE FreeChoices(_, _)
FreeChoices(n, m) ==
    IF n = 0 THEN {<<>>}
    ELSE IF m = 0 THEN {}
    ELSE {Append(s, FreeTiles[m]) : s \in FreeChoices(n - 1, m)}
             \cup FreeChoices(n, m - 1)

\* f pairs of WAN 1..f, then distinct TIAO tiles up to ten tiles
PairsBase(f) ==
    [i \in 1..10 |-> IF i <= 2 * f THEN (i + 1) \div 2 ELSE 20 + (i - 2 * f)]

PairsInputs ==
    {Input(sort_hand(PairsBase(f) \o free), 0, 0, "pairs", -1, <<>>) :
        f \in 1..5,
        free \in FreeChoices(3, Min2(FreeKinds, Len(FreeTiles)))
                    \cup FreeChoices(4, Min2(FreeKinds, Len(FreeTiles)))}

OrphanList == <<1, 9, 11, 19, 21, 29, 31, 32, 33, 34, 41, 42, 43>>

Fillers == <<<<2, 2, 3, 3, 4, 4, 5, 5, 6, 6, 7, 7, 8, 8>>,
             <<12, 13, 14, 15, 16, 17, 18, 22, 23, 24, 25, 26, 27, 28>>>>

\* the first t orphans (or the last t), one of them held dup times, filled up
\* to n tiles with tiles that are no orphans
KokushiHand(t, from_end, dup, filler, n) ==
    LET held == IF from_end THEN SubSeq(OrphanList, 14 - t, 13)
                ELSE SubSeq(OrphanList, 1, t)
        more == IF t = 0 THEN <<>> ELSE [i \in 1..(dup - 1) |-> held[1]]
        own == held \o more
    IN  sort_hand(own \o SubSeq(Fillers[filler], 1, n - Len(own)))

KokushiInputs ==
    {Input(KokushiHand(t, e, d, f, n), 0, 0, "kokushi", -1, <<>>) :
        t \in 0..13, e \in BOOLEAN, d \in 1..3, f \in 1..2, n \in 13..14}

Inputs == {inp \in GeneralInputs \cup TestInputs \cup ScatteredInputs
                       \cup PairsInputs \cup KokushiInputs :
              /\ Len(inp.hand) + (IF inp.new = 0 THEN 0 ELSE 1) <= 14 - 3 * inp.k
              /\ AtMostFour(inp.hand \o inp.pool
                                \o (IF inp.new = 0 THEN <<>> ELSE <<inp.new>>))}

\* the number of wall tiles the hands of the ukeire analysis are dealt from
UkeireWallSize == 9

UkeireWallTiles == <<1, 2, 3, 3, 5, 11, 12, 31, 31, 13, 5, 21>>

UkeireHands(n) ==
    {sort_hand(s) :
        s \in SubSeqsOf(SubSeq(UkeireWallTiles, 1,
                               Min2(UkeireWallSize, Len(UkeireWallTiles))), n)}

\* the excluded suits and the visible tiles handed to calculate_ukeire
MissingSuits == {-1, WAN}

Pools == {<<>>, <<3, 3, 12, 12, 12, 31, 31>>}

ShapeKinds == {"general", "pairs", "kokushi"}

\* the ready hand of test_shanten_calculation: 1-9 WAN and 1, 1, 2, 3 TONG
ScenarioHand == <<1, 2, 3, 4, 5, 6, 7, 8, 9, 11, 11, 12, 13>>

\* the (new_tile, missing_suit, discard_pool) a seven-pairs hand is tried with
PairsSettings ==
    {<<0, -1, <<>>>>, <<12, -1, <<>>>>, <<0, TONG, <<>>>>,
     <<0, -1, <<3, 3, 12, 12, 12, 31, 31>>>>}

\* the number of wall tiles the five-tile hands of the discard analysis are
\* dealt from
EfficiencyWallSize == 6

EfficiencyWallTiles == <<3, 5, 7, 21, 21, 4, 6, 12, 13, 31>>

EfficiencyHands ==
    {sort_hand(s) :
        s \in SubSeqsOf(SubSeq(EfficiencyWallTiles, 1,
                               Min2(EfficiencyWallSize, Len(EfficiencyWallTiles))),
                        5)}

\* hands of eight tiles beside two exposed melds: one with its tiles apart,
\* one close to ready that holds the missing suit
ApartHand == <<1, 4, 7, 11, 14, 17, 31, 41>>

NearReadyHand == <<7, 8, 9, 12, 13, 17, 23, 27>>

\* fourteen tiles with five of the thirteen orphans, each held once
FiveOrphansHand == <<1, 2, 3, 4, 5, 6, 7, 8, 9, 11, 12, 13, 19, 31>>

\* the hands of the discard analysis: 14 - 3k tiles held after a draw
EfficiencyInputs ==
    {Input(h, 4, 0, "general", ms, pool) :
        h \in UkeireHands(2), ms \in MissingSuits, pool \in Pools}
    \cup {Input(h, 3, 0, "general", ms, <<>>) :
             h \in EfficiencyHands \cup {<<4, 6, 12, 13, 31>>}, ms \in MissingSuits}
    \cup {Input(ApartHand, 2, 0, "general", -1, <<>>),
          Input(NearReadyHand, 2, 0, "general", WAN, <<>>),
          Input(NearReadyHand, 2, 0, "general", -1, <<>>),
          Input(FiveOrphansHand, 0, 0, "kokushi", -1, <<>>)}

\* the calls of evaluate_tile_danger_level: tiles of every type, discard
\* histories without and with the tile, visible walls, early and late rounds
DangerCall(tile, pool, all_visible_tiles, round_number) ==
    [tile |-> tile, discard_pool |-> pool, all_visible_tiles |-> all_visible_tiles,
     round_number |-> round_number]

NoDangerCall == DangerCall(0, <<>>, <<>>, 1)

DangerTiles == {1, 2, 3, 5, 9, 15, 28, 31, 41}

DangerPools ==
    {<<>>, <<5>>, <<2, 31, 41>>, <<8, 11, 12, 13, 14, 16, 17, 18, 19, 21, 22, 23>>,
     <<1, 3, 9, 15, 28>>}

DangerVisible == {<<>>, <<5, 5, 5>>, <<2, 5, 5, 5, 5, 31, 31, 31, 31>>}

\* the rounds the callers pass, up to this one
MaxRound == 6

DangerCalls ==
    {DangerCall(t, pool, vis, r) :
        t \in DangerTiles, pool \in DangerPools, vis \in DangerVisible,
        r \in {1, 5, MaxRound}}

\* hands of 13 - 3k tiles, some with a fourteenth tile drawn afterwards
UkeireInputs ==
    {inp \in
        {Input(h[1], h[2], 0, "general", ms, pool) :
            h \in UNION {{<<x, k>> : x \in UkeireHands(HandSize(k))} : k \in {3, 4}},
            ms \in MissingSuits, pool \in Pools}
        \cup {Input(h[1], h[2], 0, type, -1, <<>>) :
            h \in UNION {{<<x, k>> : x \in UkeireHands(HandSize(k))} : k \in {3, 4}},
            type \in ShapeKinds}
        \cup {Input(h, 2, 0, "general", -1, <<>>) : h \in UkeireHands(HandSize(2))}
        \cup {Input(ScenarioHand, 0, 0, "general", -1, <<>>)}
        \cup {Input(inp.hand, 0, c[1], "pairs", c[2], c[3]) :
                 inp \in {x \in PairsInputs : Len(x.hand) = 13},
                 c \in PairsSettings}
        \cup {Input(h, 0, n, "pairs", -1, <<>>) :
                 h \in TestHandsPairs, n \in {0, 7}}
        \cup {Input(inp.hand, 0, 0, "kokushi", -1, <<>>) :
                 inp \in {x \in KokushiInputs : Len(x.hand) = 13}} :
     AtMostFour(inp.hand \o inp.pool
                    \o (IF inp.new = 0 THEN <<>> ELSE <<inp.new>>))}

InitFrom(S) ==
    /\ \E inp \in S :
        /\ hand_tiles = inp.hand
        /\ melds_count = inp.k
        /\ new_tile = inp.new
        /\ shentan_type = inp.type
        /\ missing_suit = inp.ms
        /\ discard_pool = inp.pool
        /\ available_tiles = inp.hand
    /\ done = {}
    /\ shanten = 0
    /\ win = FALSE
    /\ ukeire = NoUkeire
    /\ scores_base = <<>>
    /\ scores_peak = <<>>
    /\ nesting = [depth |-> 0, peak_flags |-> {}]
    /\ danger_call = NoDangerCall
    /\ danger = NoOutcome
    /\ raised = {}
    /\ chosen = NoChoice
    /\ engine = NewEngine
    /\ returned = NoReturn
    /\ counts_list = EmptySuit
    /\ enumerated = NoEnumeration
    /\ combinations = {}
    /\ wait_ukeire = NoUkeire
    /\ wait_pattern = ""

Init == InitFrom(Inputs)

inputs == <<hand_tiles, melds_count, new_tile, missing_suit, discard_pool,
            available_tiles, shentan_type>>

\* ShantenCalculator.calculate_shanten(tiles, melds_count, shentan_type)
CalculateShanten ==
    /\ "shanten" \notin done
    /\ shanten' = calculate_shanten(test_tiles, melds_count, shentan_type)
    /\ done' = done \cup {"shanten"}
    /\ UNCHANGED <<inputs, win, ukeire, scores_base, scores_peak, nesting, danger_call, danger, raised, chosen, engine, returned, counts_list, enumerated, combinations, wait_ukeire, wait_pattern>>

\* SichuanRule._check_win_pattern_with_melds(test_tiles, existing_melds_count)
CheckWinPattern ==
    /\ "win" \notin done
    /\ win' = _check_win_pattern_with_melds(test_tiles, melds_count)
    /\ done' = done \cup {"win"}
    /\ UNCHANGED <<inputs, shanten, ukeire, scores_base, scores_peak, nesting, danger_call, danger, raised, chosen, engine, returned, counts_list, enumerated, combinations, wait_ukeire, wait_pattern>>

\* UkeireCalculator.calculate_ukeire on the hand as held before the draw
CalculateUkeire ==
    /\ "ukeire" \notin done
    /\ ukeire' = calculate_ukeire(hand_tiles, melds_count, missing_suit,
                                  discard_pool, shentan_type)
    /\ done' = done \cup {"ukeire"}
    /\ UNCHANGED <<inputs, shanten, win, scores_base, scores_peak, nesting, danger_call, danger, raised, chosen, engine, returned, counts_list, enumerated, combinations, wait_ukeire, wait_pattern>>

Next == CalculateShanten \/ CheckWinPattern

Spec == Init /\ [][Next]_vars

InitUkeire == InitFrom(UkeireInputs)

NextUkeire == CalculateShanten \/ CalculateUkeire

SpecUkeire == InitUkeire /\ [][NextUkeire]_vars

\* analyze_discard_efficiency(player, available_tiles, discard_pool,
\* shentan_type, use_peak_theory=False)
AnalyzeBase ==
    /\ "base" \notin done
    /\ IF analyze_discard_efficiency_raises(hand_tiles, available_tiles,
               melds_count, shentan_type, FALSE) = ""
       THEN /\ scores_base' = analyze_discard_efficiency(hand_tiles, available_tiles,
                         melds_count, missing_suit, discard_pool, shentan_type, FALSE)
            /\ UNCHANGED raised
       ELSE /\ raised' = raised \cup
                    {<<"base", analyze_discard_efficiency_raises(hand_tiles,
                          available_tiles, melds_count, shentan_type, FALSE)>>}
            /\ UNCHANGED scores_base
    /\ done' = done \cup {"base"}
    /\ UNCHANGED <<inputs, shanten, win, ukeire, scores_peak, nesting, danger_call, danger, chosen, engine, returned, counts_list, enumerated, combinations, wait_ukeire, wait_pattern>>

\* the same call with use_peak_theory=True
AnalyzePeak ==
    /\ "peak" \notin done
    /\ IF analyze_discard_efficiency_raises(hand_tiles, available_tiles,
               melds_count, shentan_type, TRUE) = ""
       THEN /\ scores_peak' = analyze_discard_efficiency(hand_tiles, available_tiles,
                         melds_count, missing_suit, discard_pool, shentan_type, TRUE)
            /\ UNCHANGED raised
       ELSE /\ raised' = raised \cup
                    {<<"peak", analyze_discard_efficiency_raises(hand_tiles,
                          available_tiles, melds_count, shentan_type, TRUE)>>}
            /\ UNCHANGED scores_peak
    /\ done' = done \cup {"peak"}
    /\ UNCHANGED <<inputs, shanten, win, ukeire, scores_base, nesting, danger_call, danger, chosen, engine, returned, counts_list, enumerated, combinations, wait_ukeire, wait_pattern>>

\* the deepest nesting looked for
MaxDepth == 3

\* ShantenAI.choose_discard(player, available_tiles)
ChooseDiscard ==
    /\ "chosen" \notin done
    /\ scores_peak' =
           IF available_tiles = <<>> THEN scores_peak
           ELSE analyze_discard_efficiency(hand_tiles, available_tiles, melds_count,
                                           missing_suit, <<>>, "general", TRUE)
    /\ chosen' \in choose_discard(hand_tiles, available_tiles, scores_peak')
    /\ done' = done \cup {"chosen"}
    /\ UNCHANGED <<inputs, shanten, win, ukeire, scores_base, nesting, danger_call, danger, raised, engine, returned, counts_list, enumerated, combinations, wait_ukeire, wait_pattern>>

\* TileEfficiencyAnalyzer.evaluate_tile_danger_level(tile, discard_pool,
\* all_visible_tiles, round_number)
EvaluateDanger ==
    /\ "danger" \notin done
    /\ danger' = evaluate_tile_danger_level(danger_call.tile, danger_call.discard_pool,
                     danger_call.all_visible_tiles, danger_call.round_number)
    /\ done' = done \cup {"danger"}
    /\ UNCHANGED <<inputs, shanten, win, ukeire, scores_base, scores_peak, nesting, danger_call, raised, chosen, engine, returned, counts_list, enumerated, combinations, wait_ukeire, wait_pattern>>

\* The calls of analyze_discard_efficiency made within one call with
\* use_peak_theory=True: the deepest nesting, and the use_peak_theory
\* arguments of the nested calls
MeasureNesting ==
    /\ "nesting" \notin done
    /\ nesting' =
        [depth |-> Cardinality({d \in 1..MaxDepth :
                       Reaches(hand_tiles, available_tiles, melds_count,
                               missing_suit, discard_pool, shentan_type, TRUE, 1, d)}),
         peak_flags |->
             IF Reaches(hand_tiles, available_tiles, melds_count, missing_suit,
                        discard_pool, shentan_type, TRUE, 1, 2)
             THEN {nested_use_peak_theory} ELSE {}]
    /\ done' = done \cup {"nesting"}
    /\ UNCHANGED <<inputs, shanten, win, ukeire, scores_base, scores_peak, danger_call, danger, raised, chosen, engine, returned, counts_list, enumerated, combinations, wait_ukeire, wait_pattern>>

\* The player holds 14 - 3k tiles and is to discard.  The candidates are the
\* whole hand (src/test_shanten_ai.py, _find_optimal_waiting_state) or the
\* tiles can_discard lets through (src/ui/game_window.py).
InitCandidates(S) ==
    /\ \E inp \in S :
        /\ hand_tiles = inp.hand
        /\ melds_count = inp.k
        /\ new_tile = inp.new
        /\ shentan_type = inp.type
        /\ missing_suit = inp.ms
        /\ discard_pool = inp.pool
        /\ available_tiles \in
               {inp.hand,
                SelectSeq(inp.hand, LAMBDA t : can_discard(inp.hand, inp.ms, t)),
                <<>>}
    /\ done = {}
    /\ shanten = 0
    /\ win = FALSE
    /\ ukeire = NoUkeire
    /\ scores_base = <<>>
    /\ scores_peak = <<>>
    /\ nesting = [depth |-> 0, peak_flags |-> {}]
    /\ danger_call = NoDangerCall
    /\ danger = NoOutcome
    /\ raised = {}
    /\ chosen = NoChoice
    /\ engine = NewEngine
    /\ returned = NoReturn
    /\ counts_list = EmptySuit
    /\ enumerated = NoEnumeration
    /\ combinations = {}
    /\ wait_ukeire = NoUkeire
    /\ wait_pattern = ""

InitEfficiency == InitCandidates(EfficiencyInputs)

NextEfficiency == AnalyzeBase \/ AnalyzePeak

SpecEfficiency == InitEfficiency /\ [][NextEfficiency]_vars

NextNesting == MeasureNesting \/ AnalyzePeak

SpecNesting == InitEfficiency /\ [][NextNesting]_vars

\* choose_discard at a player's turn; it analyzes the "general" shape only
InitDiscard == InitCandidates({inp \in EfficiencyInputs : inp.type = "general"})

NextDiscard == ChooseDiscard

SpecDiscard == InitDiscard /\ [][NextDiscard]_vars

\* a call of evaluate_tile_danger_level from provide_defense_analysis, with
\* the game context's discard history, visible tiles and round
InitDanger ==
    /\ hand_tiles = <<>>
    /\ melds_count = 0
    /\ new_tile = 0
    /\ shentan_type = "general"
    /\ missing_suit = -1
    /\ discard_pool = <<>>
    /\ available_tiles = <<>>
    /\ done = {}
    /\ shanten = 0
    /\ win = FALSE
    /\ ukeire = NoUkeire
    /\ scores_base = <<>>
    /\ scores_peak = <<>>
    /\ nesting = [depth |-> 0, peak_flags |-> {}]
    /\ chosen = NoChoice
    /\ engine = NewEngine
    /\ returned = NoReturn
    /\ counts_list = EmptySuit
    /\ enumerated = NoEnumeration
    /\ combinations = {}
    /\ wait_ukeire = NoUkeire
    /\ wait_pattern = ""
    /\ danger_call \in DangerCalls
    /\ danger = NoOutcome
    /\ raised = {}

NextDanger == EvaluateDanger

SpecDanger == InitDanger /\ [][NextDanger]_vars

----------------------------------------------------------------------------
(* The decomposition search of one suit *)

\* tiles of the suit in the vectors enumerated exhaustively
MaxSuitTiles == 4

\* the lists of len counts 0..4 that hold at most total tiles
RECURSIVE VectorsUpTo(_, _)
VectorsUpTo(len, total) ==
    IF len = 0 THEN {<<>>}
    ELSE UNION {{<<c>> \o v : v \in VectorsUpTo(len - 1, total - c)} :
                   c \in 0..Min2(4, total)}

\* suits of whole hands: nine gates, a full flush of runs and triplets,
\* seven pairs, four of each of three ranks and a pair
FullSuits ==
    {<<3, 1, 1, 1, 1, 1, 1, 1, 3>>, <<1, 1, 1, 1, 1, 1, 1, 1, 1>>,
     <<3, 1, 1, 1, 0, 3, 1, 1, 3>>, <<2, 2, 2, 2, 2, 2, 2, 0, 0>>,
     <<4, 4, 4, 2, 0, 0, 0, 0, 0>>, <<0, 0, 0, 0, 0, 2, 4, 4, 4>>}

\* the count vectors _get_suit_combinations hands to _enumerate_combinations
SuitVectors == VectorsUpTo(9, MaxSuitTiles) \cup FullSuits

\* ShantenCalculator._enumerate_combinations(suit_counts[:], 0, 0, 0, results)
EnumerateCombinations ==
    /\ "enumerated" \notin done
    /\ enumerated' = _enumerate_combinations(counts_list, 0, 0, 0)
    /\ done' = done \cup {"enumerated"}
    /\ UNCHANGED <<inputs, shanten, win, ukeire, scores_base, scores_peak, nesting, danger_call, danger, raised, chosen, engine, returned, counts_list, combinations, wait_ukeire, wait_pattern>>

\* ShantenCalculator._get_suit_combinations(suit_counts)
GetSuitCombinations ==
    /\ "combinations" \notin done
    /\ combinations' = _get_suit_combinations(counts_list)
    /\ done' = done \cup {"combinations"}
    /\ UNCHANGED <<inputs, shanten, win, ukeire, scores_base, scores_peak, nesting, danger_call, danger, raised, chosen, engine, returned, counts_list, enumerated, wait_ukeire, wait_pattern>>

InitSuit ==
    /\ hand_tiles = <<>>
    /\ melds_count = 0
    /\ new_tile = 0
    /\ shentan_type = "general"
    /\ missing_suit = -1
    /\ discard_pool = <<>>
    /\ available_tiles = <<>>
    /\ done = {}
    /\ shanten = 0
    /\ win = FALSE
    /\ ukeire = NoUkeire
    /\ scores_base = <<>>
    /\ scores_peak = <<>>
    /\ nesting = [depth |-> 0, peak_flags |-> {}]
    /\ chosen = NoChoice
    /\ danger_call = NoDangerCall
    /\ danger = NoOutcome
    /\ raised = {}
    /\ engine = NewEngine
    /\ returned = NoReturn
    /\ combinations = {}
    /\ wait_ukeire = NoUkeire
    /\ wait_pattern = ""
    /\ counts_list \in SuitVectors
    /\ enumerated = NoEnumeration

NextSuit == EnumerateCombinations \/ GetSuitCombinations

SpecSuit == InitSuit /\ [][NextSuit]_vars

----------------------------------------------------------------------------
(* The wait classifier *)

\* hands one tile from complete, with their exposed melds: single waits at
\* ranks 3, 7 and 5 from either shape, pair waits, two pairs, two-sided and
\* double-single waits, three and more waits, nine gates, thirteen orphans,
\* and a hand that is not ready
WaitHands ==
    {[tiles |-> t, melds_count |-> 3, shentan_type |-> "general"] :
        t \in {<<2, 4, 15, 15>>, <<1, 2, 15, 15>>, <<8, 9, 15, 15>>,
               <<6, 8, 15, 15>>, <<4, 6, 15, 15>>, <<1, 1, 31, 31>>,
               <<2, 2, 5, 5>>, <<4, 5, 15, 15>>, <<3, 4, 5, 6>>,
               <<2, 3, 3, 3>>, <<1, 5, 9, 31>>}}
    \cup {[tiles |-> t, melds_count |-> 4, shentan_type |-> "general"] :
        t \in {<<31>>, <<5>>}}
    \cup {[tiles |-> t, melds_count |-> 2, shentan_type |-> "general"] :
        t \in {<<2, 3, 4, 5, 6, 17, 17>>, <<2, 3, 4, 5, 6, 7, 8>>,
               <<3, 3, 3, 4, 5, 6, 7>>}}
    \cup {[tiles |-> <<1, 1, 1, 2, 3, 4, 5, 6, 7, 8, 9, 9, 9>>,
           melds_count |-> 0, shentan_type |-> "general"],
          [tiles |-> <<1, 9, 11, 19, 21, 29, 31, 32, 33, 34, 41, 42, 43>>,
           melds_count |-> 0, shentan_type |-> "kokushi"]}

\* kinds of the maps that are not the hand's own ukeire
WaitKinds == {2, 3, 5, 6, 7, 15, 31, 41}

\* kinds in such a map
MaxWaits == 4

\* the nine gates hand waits for every rank of its suit
OwnUkeire(h) ==
    IF h.tiles = <<1, 1, 1, 2, 3, 4, 5, 6, 7, 8, 9, 9, 9>>
    THEN [key \in 1..9 |-> 4 - _count_tiles(h.tiles)[key]]
    ELSE calculate_ukeire(h.tiles, h.melds_count, -1, <<>>, h.shentan_type)

\* the hand's own ukeire map, and every map over at most MaxWaits of WaitKinds
WaitMaps(h) ==
    {OwnUkeire(h)}
    \cup {[key \in S |-> 4 - _count_tiles(h.tiles)[key]] :
             S \in {K \in SUBSET WaitKinds : Cardinality(K) <= MaxWaits}}

\* TileEfficiencyAnalyzer._classify_tenpai_pattern(tiles, final_ukeire)
ClassifyTenpaiPattern ==
    /\ "pattern" \notin done
    /\ wait_pattern' = _classify_tenpai_pattern(hand_tiles, wait_ukeire)
    /\ done' = done \cup {"pattern"}
    /\ UNCHANGED <<inputs, shanten, win, ukeire, scores_base, scores_peak, nesting, danger_call, danger, raised, chosen, engine, returned, counts_list, enumerated, combinations, wait_ukeire>>

InitWait ==
    /\ \E h \in WaitHands :
           /\ hand_tiles = h.tiles
           /\ melds_count = h.melds_count
           /\ shentan_type = h.shentan_type
           /\ wait_ukeire \in WaitMaps(h)
    /\ new_tile = 0
    /\ missing_suit = -1
    /\ discard_pool = <<>>
    /\ available_tiles = <<>>
    /\ done = {}
    /\ shanten = 0
    /\ win = FALSE
    /\ ukeire = NoUkeire
    /\ scores_base = <<>>
    /\ scores_peak = <<>>
    /\ nesting = [depth |-> 0, peak_flags |-> {}]
    /\ chosen = NoChoice
    /\ danger_call = NoDangerCall
    /\ danger = NoOutcome
    /\ raised = {}
    /\ engine = NewEngine
    /\ returned = NoReturn
    /\ combinations = {}
    /\ wait_pattern = ""
    /\ counts_list = EmptySuit
    /\ enumerated = NoEnumeration

NextWait == ClassifyTenpaiPattern

SpecWait == InitWait /\ [][NextWait]_vars

----------------------------------------------------------------------------
(* The engine's interface *)

\* the outcomes of the random module within one start_new_game: the dealer
\* of a first game, the order of the deck, the direction of the exchange
RandomDraws ==
    {[dealer |-> 0, stride |-> 11, direction |-> 1],
     [dealer |-> 2, stride |-> 37, direction |-> -1]}

\* what the AI classes of the AI seats come up with during one call: nothing
\* valid (-1, the engine's default applies) or a suit of their own
AITries == {[p \in Seats |-> -1], [p \in Seats |-> p % 3]}

\* games started per engine
MaxGames == 2

\* player ids the callers submit for: the human, an AI seat, no seat
SubmitterIds == {0, 2, 4}

ThreeOf(tile) == <<tile, tile, tile>>

\* tile lists submitted for a hand: three of its largest suit, one tile
\* three times, two tiles, three tiles not of one suit, tiles the hand does
\* not hold
ExchangeOffers(hand) ==
    IF hand = <<>> THEN {<<>>, ThreeOf(Tile(WAN, 1))}
    ELSE {DefaultExchange(hand), ThreeOf(hand[1]), SubSeq(hand, 1, 2),
                   <<hand[1], hand[2], hand[Len(hand)]>>,
                   ThreeOf(MinOf({t \in ALL_TILES : ~has_tile_in_hand(hand, t)}))}

HandOf(e, player_id) ==
    IF player_id \in DOMAIN e.players THEN e.players[player_id].hand_tiles ELSE <<>>

SetupGame ==
    /\ engine.players = <<>>
    /\ \E mode \in {TRAINING, COMPETITIVE}, rule_type \in {"sichuan", "national"} :
           engine' = setup_game(engine, mode, rule_type)
    /\ returned' = [op |-> "setup_game", player_id |-> -1, result |-> TRUE]
    /\ UNCHANGED <<inputs, done, shanten, win, ukeire, scores_base, scores_peak, nesting, danger_call, danger, raised, chosen, counts_list, enumerated, combinations, wait_ukeire, wait_pattern>>

StartNewGame ==
    /\ engine.round_number < MaxGames
    /\ \E random \in RandomDraws, tried \in AITries :
           LET out == start_new_game(engine, random, tried, tried)
           IN  /\ engine' = out.engine
               /\ returned' = [op |-> "start_new_game", player_id |-> -1,
                               result |-> out.result]
    /\ UNCHANGED <<inputs, done, shanten, win, ukeire, scores_base, scores_peak, nesting, danger_call, danger, raised, chosen, counts_list, enumerated, combinations, wait_ukeire, wait_pattern>>

SubmitExchangeTiles ==
    /\ \E player_id \in SubmitterIds, tried \in AITries :
         \E tiles \in ExchangeOffers(HandOf(engine, player_id)) :
           LET out == submit_exchange_tiles(engine, player_id, tiles, tried)
           IN  /\ engine' = out.engine
               /\ returned' = [op |-> "submit_exchange_tiles", player_id |-> player_id,
                               result |-> out.result]
    /\ UNCHANGED <<inputs, done, shanten, win, ukeire, scores_base, scores_peak, nesting, danger_call, danger, raised, chosen, counts_list, enumerated, combinations, wait_ukeire, wait_pattern>>

SubmitMissingSuit ==
    /\ \E player_id \in SubmitterIds, suit \in {WAN, TIAO, FENG} :
           LET out == submit_missing_suit(engine, player_id, suit)
           IN  /\ engine' = out.engine
               /\ returned' = [op |-> "submit_missing_suit", player_id |-> player_id,
                               result |-> out.result]
    /\ UNCHANGED <<inputs, done, shanten, win, ukeire, scores_base, scores_peak, nesting, danger_call, danger, raised, chosen, counts_list, enumerated, combinations, wait_ukeire, wait_pattern>>

\* a constructed engine, before setup_game
InitGame ==
    /\ hand_tiles = <<>>
    /\ melds_count = 0
    /\ new_tile = 0
    /\ shentan_type = "general"
    /\ missing_suit = -1
    /\ discard_pool = <<>>
    /\ available_tiles = <<>>
    /\ done = {}
    /\ shanten = 0
    /\ win = FALSE
    /\ ukeire = NoUkeire
    /\ scores_base = <<>>
    /\ scores_peak = <<>>
    /\ nesting = [depth |-> 0, peak_flags |-> {}]
    /\ chosen = NoChoice
    /\ danger_call = NoDangerCall
    /\ danger = NoOutcome
    /\ raised = {}
    /\ engine = NewEngine
    /\ returned = NoReturn
    /\ counts_list = EmptySuit
    /\ enumerated = NoEnumeration
    /\ combinations = {}
    /\ wait_ukeire = NoUkeire
    /\ wait_pattern = ""

NextGame == SetupGame \/ StartNewGame \/ SubmitExchangeTiles \/ SubmitMissingSuit

SpecGame == InitGame /\ [][NextGame]_vars

----------------------------------------------------------------------------
(* The objects analyze_discard_efficiency works on *)

\* The lists and the players alive during a call, as objects: a reference is
\* the place of a list in lists or of a player in players; a player's
\* hand_tiles is a reference to a list.
Memory(lists, players) == [lists |-> lists, players |-> players]

\* hand_tiles.copy() kept out: the name is bound to the list itself
list_alias(memory, ref) == [memory |-> memory, ref |-> ref]

\* list.copy(): a new list with the same tiles
list_copy(memory, ref) ==
    [memory |-> [memory EXCEPT !.lists = Append(@, memory.lists[ref])],
     ref |-> Len(memory.lists) + 1]

\* remaining_tiles + [test_tile]: a new list
list_plus(memory, ref, tile) ==
    [memory |-> [memory EXCEPT !.lists = Append(@, Append(memory.lists[ref], tile))],
     ref |-> Len(memory.lists) + 1]

\* list.remove(tile) on the list referred to; a ValueError leaves it as it is
list_remove(memory, ref, tile) ==
    IF Has(memory.lists[ref], tile)
    THEN [memory EXCEPT !.lists[ref] = remove(@, tile)]
    ELSE memory

\* the locals of a finished block are gone: the objects made since then
Released(memory, before) ==
    Memory(SubSeq(memory.lists, 1, Len(before.lists)),
           SubSeq(memory.players, 1, Len(before.players)))

\* the loop of analyze_discard_efficiency over available_tiles, from the
\* i-th candidate on: a copy of the hand is made and the candidate removed
RECURSIVE CandidateWrites(_, _, _, _)
CandidateWrites(memory, player_ref, avail_ref, i) ==
    IF i > Len(memory.lists[avail_ref]) THEN memory
    ELSE LET remaining_tiles == list_copy(memory, memory.players[player_ref].hand_tiles)
         IN  CandidateWrites(
                 Released(list_remove(remaining_tiles.memory, remaining_tiles.ref,
                                      memory.lists[avail_ref][i]),
                          memory),
                 player_ref, avail_ref, i + 1)

\* temp_player of _find_optimal_waiting_state: a new Player whose hand_tiles
\* is the list tiles itself, with the player's missing suit and a deep copy
\* of the player's melds
temp_player(memory, player_ref, tiles_ref) ==
    [memory EXCEPT !.players =
        Append(@, [hand_tiles |-> tiles_ref,
                   missing_suit |-> memory.players[player_ref].missing_suit,
                   melds_count |-> memory.players[player_ref].melds_count])]

RECURSIVE AnalyzeWrites(_, _, _, _, _, _)

\* the end of _find_optimal_waiting_state: tiles.remove(discard_tile), the
\* tile the nested analysis scores highest, on the caller's list
BestRemoved(nested, temp_ref, tiles_ref, pool_ref, type) ==
    list_remove(nested, tiles_ref,
        First(analyze_discard_efficiency(
                  nested.lists[nested.players[temp_ref].hand_tiles],
                  nested.lists[tiles_ref],
                  nested.players[temp_ref].melds_count,
                  nested.players[temp_ref].missing_suit,
                  nested.lists[pool_ref], type, nested_use_peak_theory)).tile)

\* _find_optimal_waiting_state(tiles, player, ...): the nested analysis of
\* the temporary player, the last of the players, then the removal
FindOptimalWrites(memory, tiles_ref, player_ref, pool_ref, type) ==
    CHOOSE left \in
        {BestRemoved(nested, Len(memory.players) + 1, tiles_ref, pool_ref, type) :
            nested \in {AnalyzeWrites(temp_player(memory, player_ref, tiles_ref),
                                      Len(memory.players) + 1, tiles_ref, pool_ref,
                                      type, nested_use_peak_theory)}} : TRUE

\* the loop of _analyze_waiting_patterns over the kinds of ukeire: the list
\* test_tiles is made for each and handed to _find_optimal_waiting_state
\* when it is within one of ready
RECURSIVE WaitingWrites(_, _, _, _, _, _)
WaitingWrites(keys, memory, remaining_ref, player_ref, pool_ref, type) ==
    IF keys = {} THEN memory
    ELSE LET tile_key == MinOf(keys)
             with_tile == list_plus(memory, remaining_ref, tile_key)
             test_shanten == calculate_shanten(with_tile.memory.lists[with_tile.ref],
                                 memory.players[player_ref].melds_count, type)
         IN  WaitingWrites(keys \ {tile_key},
                 Released(IF test_shanten <= 1
                          THEN FindOptimalWrites(with_tile.memory, with_tile.ref,
                                                 player_ref, pool_ref, type)
                          ELSE with_tile.memory,
                          memory),
                 remaining_ref, player_ref, pool_ref, type)

\* _calculate_peak_theory_bonus: a copy of the hand without discard_tile,
\* and the waiting patterns looked for from it
PeakBonusWrites(memory, discard_tile, player_ref, pool_ref, current_shanten, type, ukeire_map) ==
    IF current_shanten > 2 THEN memory
    ELSE LET remaining_tiles == list_copy(memory, memory.players[player_ref].hand_tiles)
             removed == list_remove(remaining_tiles.memory, remaining_tiles.ref,
                                    discard_tile)
             after_shanten == calculate_shanten(removed.lists[remaining_tiles.ref],
                                  memory.players[player_ref].melds_count, type)
         IN  IF after_shanten > current_shanten \/ DOMAIN ukeire_map = {}
             THEN Released(removed, memory)
             ELSE Released(WaitingWrites(DOMAIN ukeire_map, removed,
                                         remaining_tiles.ref, player_ref, pool_ref,
                                         type),
                           memory)

\* the loop of _apply_peak_theory over top3, from the candidate of rank r on
RECURSIVE Top3Writes(_, _, _, _, _, _, _, _)
Top3Writes(r, memory, efficiency_scores, player_ref, pool_ref, current_shanten, type, ukeire_map) ==
    IF r >= 3 \/ r >= Len(efficiency_scores) THEN memory
    ELSE Top3Writes(r + 1,
             PeakBonusWrites(memory,
                 efficiency_scores[CHOOSE i \in 1..Len(efficiency_scores) :
                                       Rank(efficiency_scores, i) = r].tile,
                 player_ref, pool_ref, current_shanten, type, ukeire_map),
             efficiency_scores, player_ref, pool_ref, current_shanten, type,
             ukeire_map)

\* the end of analyze_discard_efficiency: _apply_peak_theory with the scores
\* the loop has computed
PeakWrites(memory, efficiency_scores, current_shanten, player_ref, avail_ref, pool_ref, type, use_peak_theory) ==
    IF /\ current_shanten <= 2
       /\ use_peak_theory
       /\ PeakApplies(efficiency_scores)
    THEN Top3Writes(0, memory, efficiency_scores, player_ref, pool_ref,
                    current_shanten, type,
                    LastUkeire(efficiency_scores, memory.lists[avail_ref]))
    ELSE memory

\* what a call of analyze_discard_efficiency leaves of the objects it is
\* called with: player, available_tiles and discard_pool
AnalyzeWrites(memory, player_ref, avail_ref, pool_ref, type, use_peak_theory) ==
    LET player == memory.players[player_ref]
        hand == memory.lists[player.hand_tiles]
        current_shanten == calculate_shanten(hand, player.melds_count, type)
    IN  PeakWrites(CandidateWrites(memory, player_ref, avail_ref, 1),
                   ScoreLoop(KeyOrder(memory.lists[avail_ref]), hand,
                             player.melds_count, player.missing_suit,
                             memory.lists[pool_ref], type, current_shanten),
                   current_shanten, player_ref, avail_ref, pool_ref, type,
                   use_peak_theory)

\* the caller's objects: the player with the hand, the candidates (the hand
\* itself when the caller hands over player.hand_tiles, a list of their own
\* when it hands over the tiles it may discard) and the discard pool
CallerMemory(hand_is_available) ==
    Memory(<<hand_tiles, IF hand_is_available THEN <<>> ELSE available_tiles,
             discard_pool>>,
           <<[hand_tiles |-> 1, missing_suit |-> missing_suit,
              melds_count |-> melds_count]>>)

\* TileEfficiencyAnalyzer.analyze_discard_efficiency(player, available_tiles,
\* discard_pool, shentan_type, use_peak_theory), for what it does to the
\* objects it is handed
AnalyzeDiscardEfficiency ==
    /\ available_tiles # <<>>
    /\ \E use_peak_theory \in BOOLEAN :
         LET call == IF use_peak_theory THEN "called_peak" ELSE "called_base"
             hand_is_available == available_tiles = hand_tiles
             avail_ref == IF hand_is_available THEN 1 ELSE 2
         IN  /\ call \notin done
             /\ \E memory \in {AnalyzeWrites(CallerMemory(hand_is_available), 1,
                                             avail_ref, 3, shentan_type,
                                             use_peak_theory)} :
                  /\ hand_tiles' = memory.lists[memory.players[1].hand_tiles]
                  /\ melds_count' = memory.players[1].melds_count
                  /\ missing_suit' = memory.players[1].missing_suit
                  /\ available_tiles' = memory.lists[avail_ref]
                  /\ discard_pool' = memory.lists[3]
             /\ done' = done \cup {call}
    /\ UNCHANGED <<new_tile, shentan_type, shanten, win, ukeire, scores_base, scores_peak, nesting, danger_call, danger, raised, chosen, engine, returned, counts_list, enumerated, combinations, wait_ukeire, wait_pattern>>

NextObjects == AnalyzeDiscardEfficiency

SpecObjects == InitEfficiency /\ [][NextObjects]_vars

----------------------------------------------------------------------------
(* The discard of one tile *)

\* the tiles drawn onto the test hands: the lowest tile and the last dragon
RemovalDraws == {1, 31, 43}

\* hands of fourteen tiles: the hands of test_shanten_calculation after a draw
FullHands ==
    {h \in {sort_hand(Append(t, n)) :
               t \in TestHandsGeneral \cup TestHandsPairs \cup TestHandsKokushi,
               n \in RemovalDraws} : AtMostFour(h)}

\* hands of 2 to 14 tiles: the lowest and the highest tiles of a full hand
RemovalHands ==
    UNION {{SubSeq(h, 1, n) : n \in 2..Len(h)}
               \cup {SubSeq(h, Len(h) - n + 1, Len(h)) : n \in 2..Len(h)} :
           h \in FullHands}

\* the meld counts a hand is analysed with: none, or the melds that make
\* the hand a full one
MeldsBeside(h) ==
    {0} \cup {k \in 1..4 : Len(h) + 3 * k = get_initial_hand_size + 1}

\* the most tiles of one suit in a hand measured for the general shape
MaxOfOneSuit == 9

OfOneSuit(h, suit) == Cardinality({i \in 1..Len(h) : TileTypeOf(h[i]) = suit})

RemovalInputs ==
    {inp \in
        {Input(c[1], c[2], 0, type, -1, <<>>) :
            c \in UNION {{<<h, k>> : k \in MeldsBeside(h)} : h \in RemovalHands},
            type \in ShapeKinds} :
        inp.type = "general"
            => \A suit \in NumberSuits : OfOneSuit(inp.hand, suit) <= MaxOfOneSuit}

InitRemoval == InitFrom(RemovalInputs)

NextRemoval == CalculateShanten

SpecRemoval == InitRemoval /\ [][NextRemoval]_vars

----------------------------------------------------------------------------
(* The playing phase *)

\* The deals: the hands after the exchange (the dealer holds 14), the
\* missing suits chosen, the dealer, the tile the dealer discards first in
\* the game that is followed to its end, and the two tiles at the bottom of
\* the wall.  In the first deal seat 1 holds three 5-tong, seats 2 and 3 wait
\* for it and the dealer holds four 1-wan; in the second the dealer holds a
\* complete hand and the three others wait for 5-tiao, one of them with six
\* pairs.
Deals ==
    {[hands |-> [p \in Seats |->
                    CASE p = 0 -> <<1, 1, 1, 1, 2, 3, 4, 9, 9, 11, 11, 13, 14, 15>>
                      [] p = 1 -> <<2, 2, 3, 3, 6, 6, 6, 7, 8, 12, 15, 15, 15>>
                      [] p = 2 -> <<14, 16, 21, 21, 21, 22, 22, 22, 23, 23, 23, 29, 29>>
                      [] p = 3 -> <<13, 14, 24, 24, 24, 25, 25, 25, 26, 26, 26, 27, 27>>],
      missing |-> [p \in Seats |-> IF p <= 1 THEN TIAO ELSE WAN],
      dealer |-> 0, first |-> 15, bottom |-> <<12, 28>>],
     [hands |-> [p \in Seats |->
                    CASE p = 0 -> <<1, 1, 1, 2, 2, 2, 3, 3, 3, 9, 9, 24, 26>>
                      [] p = 1 -> <<11, 12, 13, 14, 15, 16, 17, 18, 19, 21, 21, 21, 25, 25>>
                      [] p = 2 -> <<4, 4, 5, 5, 6, 6, 7, 7, 9, 9, 22, 22, 25>>
                      [] p = 3 -> <<8, 8, 23, 24, 27, 27, 27, 28, 28, 28, 29, 29, 29>>],
      missing |-> [p \in Seats |-> IF p = 1 THEN WAN ELSE TONG],
      dealer |-> 1, first |-> 25, bottom |-> <<8, 22>>]}

\* the tiles of a hand of the deal, all four hands one after the other
AllHands(deal) ==
    deal.hands[0] \o deal.hands[1] \o deal.hands[2] \o deal.hands[3]

\* the places of the fresh deck whose tiles are left when the tiles taken
\* are gone: of the four places of a kind, the first 4 - (copies taken)
PlacesLeft(taken) ==
    {i \in 1..DeckSize("sichuan") :
        (i - 1) % 4 < 4 - CopiesHeld(taken, KindAt(((i - 1) \div 4) + 1))}

\* the tiles of the fresh deck left when the tiles taken are gone, in order
LeftOf(taken) ==
    ListOf([j \in 1..Cardinality(PlacesLeft(taken)) |->
               KindAt(((CHOOSE i \in PlacesLeft(taken) :
                           Cardinality({x \in PlacesLeft(taken) : x < i}) = j - 1)
                       - 1) \div 4 + 1)],
           Cardinality(PlacesLeft(taken)))

\* the wall of a deal: the tiles no hand holds, the bottom tiles first
WallOf(deal) == deal.bottom \o LeftOf(AllHands(deal) \o deal.bottom)

\* the engine as _start_playing leaves it for a deal
Playing(deal) ==
    [state |-> PLAYING,
     deck |-> WallOf(deal),
     discarded_tiles |-> <<>>,
     players |-> Seated([p \in Seats |->
         [hand_tiles |-> sort_hand(deal.hands[p]), melds |-> <<>>,
          is_winner |-> FALSE, missing_suit |-> deal.missing[p]]]),
     current_player_index |-> deal.dealer,
     discard_pool |-> <<>>,
     last_discarded_tile |-> 0,
     last_discard_player |-> -1,
     last_drawn_tile |-> 0,
     active_players |-> <<0, 1, 2, 3>>,
     winners |-> <<>>,
     last_game_winners |-> <<>>,
     last_game_winner_tile |-> 0,
     is_first_game |-> TRUE]

\* draws of the game that is followed to its end before the model takes over
LateDraws == DeckSize("sichuan") - 4 * get_initial_hand_size - 1 - 1

\* the game of a deal near its end: the dealer discarded deal.first, and
\* each player in turn drew and discarded the tile drawn, everybody passing
\* in between, until one tile is left in the wall and the player to move
\* has drawn
DiscardAndPass(e, tile) ==
    CHOOSE passed \in
        {execute_player_action(discarded, e.current_player_index, PASS, 0).engine :
            discarded \in {execute_player_action(e, e.current_player_index,
                                                 DISCARD, tile).engine}} : TRUE

\* n rounds of it: the first half of them, then the others
RECURSIVE DrawAndDiscard(_, _)
DrawAndDiscard(e, n) ==
    IF n = 0 THEN e
    ELSE IF n = 1 THEN DiscardAndPass(e, e.last_drawn_tile)
    ELSE CHOOSE late \in
             {DrawAndDiscard(half, n - (n \div 2)) :
                 half \in {DrawAndDiscard(e, n \div 2)}} : TRUE

LateGame(deal) ==
    DrawAndDiscard(DiscardAndPass(Playing(deal), deal.first), LateDraws - 1)

\* draws the game is followed for, from the deal and before the wall is empty
MaxDraws == 2

\* the wall after the deal
FullWall == DeckSize("sichuan") - 4 * get_initial_hand_size - 1

\* the tile a caller names: none, the first or the last tile of the hand,
\* or a kind the hand holds four of
TilesNamed(hand) ==
    {0} \cup (IF hand = <<>> THEN {} ELSE {hand[1], hand[Len(hand)]})
        \cup {hand[i] : i \in {j \in 1..Len(hand) : CopiesHeld(hand, hand[j]) >= 4}}

\* no call of execute_player_action has returned yet
NoAction == [op |-> "", player_id |-> -1, action |-> "", result |-> FALSE]

ExecutePlayerAction ==
    /\ Len(engine.deck) > FullWall - MaxDraws \/ Len(engine.deck) < MaxDraws
    /\ \E player_id \in Seats, action \in {DISCARD, PENG, GANG, WIN, PASS} :
         \E tile \in (IF action \in {DISCARD, GANG}
                      THEN TilesNamed(engine.players[player_id].hand_tiles) ELSE {0}) :
           LET out == execute_player_action(engine, player_id, action, tile)
           IN  /\ engine' = out.engine
               /\ returned' = [op |-> "execute_player_action", player_id |-> player_id,
                               action |-> action, result |-> out.result]
    /\ UNCHANGED <<inputs, done, shanten, win, ukeire, scores_base, scores_peak, nesting, danger_call, danger, raised, chosen, counts_list, enumerated, combinations, wait_ukeire, wait_pattern>>

\* the game after _start_playing, or near the end of the wall
InitPlay ==
    /\ engine \in {Playing(deal) : deal \in Deals} \cup {LateGame(deal) : deal \in Deals}
    /\ hand_tiles = <<>>
    /\ melds_count = 0
    /\ new_tile = 0
    /\ shentan_type = "general"
    /\ missing_suit = -1
    /\ discard_pool = <<>>
    /\ available_tiles = <<>>
    /\ done = {}
    /\ shanten = 0
    /\ win = FALSE
    /\ ukeire = NoUkeire
    /\ scores_base = <<>>
    /\ scores_peak = <<>>
    /\ nesting = [depth |-> 0, peak_flags |-> {}]
    /\ chosen = NoChoice
    /\ danger_call = NoDangerCall
    /\ danger = NoOutcome
    /\ raised = {}
    /\ returned = NoAction
    /\ counts_list = EmptySuit
    /\ enumerated = NoEnumeration
    /\ combinations = {}
    /\ wait_ukeire = NoUkeire
    /\ wait_pattern = ""


NextPlay == ExecutePlayerAction

SpecPlay == InitPlay /\ [][NextPlay]_vars


----------------------------------------------------------------------------
(* What a complete hand is, stated without the code's search *)

CountsOf(tiles) == [key \in ALL_TILES |->
                       Cardinality({i \in 1..Len(tiles) : tiles[i] = key})]

\* the tiles counted by c split into exactly n triplets and runs
RECURSIVE MeldsOnly(_, _)
MeldsOnly(c, n) ==
    LET held == {key \in ALL_TILES : c[key] > 0}
    IN  IF held = {} THEN n = 0
        ELSE IF n = 0 THEN FALSE
        ELSE LET low == MinOf(held)
             IN  \/ /\ c[low] >= 3
                    /\ MeldsOnly([c EXCEPT ![low] = @ - 3], n - 1)
                 \/ /\ is_number_tile(low)
                    /\ ValueOf(low) <= 7
                    /\ c[low + 1] > 0
                    /\ c[low + 2] > 0
                    /\ MeldsOnly([c EXCEPT ![low] = @ - 1, ![low + 1] = @ - 1,
                                           ![low + 2] = @ - 1], n - 1)

\* the tiles split into exactly n melds and one pair, no tile left over
CanPartition(tiles, n) ==
    \E key \in ALL_TILES :
        /\ CountsOf(tiles)[key] >= 2
        /\ MeldsOnly([CountsOf(tiles) EXCEPT ![key] = @ - 2], n)

FullHand == Len(test_tiles) = 14 - 3 * melds_count

LegalSize == Len(test_tiles) \in {13 - 3 * melds_count, 14 - 3 * melds_count}

----------------------------------------------------------------------------
(* C1: for a hand of 14 - 3k tiles, calculate_shanten(tiles, k, "general") *)
(* is -1 exactly when the tiles split into 4 - k melds and a pair, which   *)
(* is exactly when _check_win_pattern_with_melds accepts the same list.    *)
C1_ShantenIffWinPattern ==
    ({"shanten", "win"} \subseteq done /\ shentan_type = "general" /\ FullHand)
        => /\ (shanten = -1) <=> CanPartition(test_tiles, 4 - melds_count)
           /\ (shanten = -1) <=> win

----------------------------------------------------------------------------
(* C4: for a hand of 13 - 3k or 14 - 3k tiles that is not complete, the     *)
(* standard shanten is the minimum, over one decomposition triple per suit  *)
(* and the honor closed form, of 8 - 2 melds - min(partialSets + pairs,     *)
(* 4 - melds), less one when pairs >= 1 and melds + partialSets + pairs     *)
(* >= 5 (melds includes melds_count); a hand with no two tiles that could   *)
(* share a meld, partial set or pair evaluates to 8.                        *)

C4_Value(g) ==
    8 - 2 * g[1] - Min2(g[2] + g[3], 4 - g[1])
        - (IF g[3] >= 1 /\ g[1] + g[2] + g[3] >= 5 THEN 1 ELSE 0)

\* no pair, and no two tiles of one suit within two ranks of each other
Scattered(tiles) ==
    \A i, j \in 1..Len(tiles) :
        i < j => /\ tiles[i] # tiles[j]
                 /\ ~(/\ is_number_tile(tiles[i])
                      /\ TileTypeOf(tiles[i]) = TileTypeOf(tiles[j])
                      /\ tiles[j] - tiles[i] \in {-2, -1, 1, 2})

C4_StandardShantenFormula ==
    ("shanten" \in done /\ shentan_type = "general" /\ LegalSize
        /\ ~CanPartition(test_tiles, 4 - melds_count))
        => /\ shanten = MinOf({C4_Value(g) :
                  g \in GroupTotals(_count_tiles(test_tiles), melds_count)})
           /\ (Scattered(test_tiles) /\ melds_count = 0) => shanten = 8

\* the minimum is reached only by a combination that takes the pair bonus
C4_Witness ==
    /\ "shanten" \in done /\ shentan_type = "general" /\ LegalSize
    /\ ~CanPartition(test_tiles, 4 - melds_count)
    /\ \A g \in GroupTotals(_count_tiles(test_tiles), melds_count) :
           C4_Value(g) = shanten => (g[3] >= 1 /\ g[1] + g[2] + g[3] >= 5)

C4_WitnessScattered ==
    /\ "shanten" \in done /\ shentan_type = "general" /\ melds_count = 0
    /\ Scattered(test_tiles) /\ Len(test_tiles) = 14 /\ shanten = 8

----------------------------------------------------------------------------
(* C6: in the seven-pairs shanten a kind held four times is one pair, not   *)
(* two: the pair count is the number of kinds held at least twice, and a    *)
(* 14-tile hand of one four-of-a-kind and five other pairs is not -1.       *)

KindsHeldTwice(tiles) == {key \in ALL_TILES : CountsOf(tiles)[key] >= 2}

C6_QuadIsOnePair ==
    ("shanten" \in done /\ shentan_type = "pairs" /\ melds_count = 0 /\ LegalSize)
        => shanten = (IF Cardinality(KindsHeldTwice(test_tiles)) = 7 THEN -1
                      ELSE 6 - Cardinality(KindsHeldTwice(test_tiles)))

----------------------------------------------------------------------------
(* C7: with melds_count = 0 the thirteen-orphans shanten of a hand of 13 or *)
(* 14 tiles depends only on T, the number of distinct orphan kinds held,    *)
(* and on whether one of them is held twice: 12 - T (or -1 when T = 13) if  *)
(* so, else 13 - T; tiles that are no orphans change nothing.               *)

IsOrphan(t) == (is_number_tile(t) /\ ValueOf(t) \in {1, 9}) \/ TileTypeOf(t) >= FENG

OrphansHeld(tiles) == {tiles[i] : i \in {j \in 1..Len(tiles) : IsOrphan(tiles[j])}}

OrphanHeldTwice(tiles) ==
    \E i, j \in 1..Len(tiles) : i < j /\ tiles[i] = tiles[j] /\ IsOrphan(tiles[i])

C7_KokushiShanten ==
    ("shanten" \in done /\ shentan_type = "kokushi" /\ melds_count = 0 /\ LegalSize)
        => LET T == Cardinality(OrphansHeld(test_tiles))
           IN  shanten = (IF OrphanHeldTwice(test_tiles)
                          THEN (IF T = 13 THEN -1 ELSE 12 - T)
                          ELSE 13 - T)

\* a pair among the orphans, a pair among the other tiles, and some orphans missing
C7_Witness ==
    /\ "shanten" \in done /\ shentan_type = "kokushi" /\ melds_count = 0 /\ LegalSize
    /\ OrphanHeldTwice(test_tiles)
    /\ Cardinality(OrphansHeld(test_tiles)) \in 1..12
    /\ \E i, j \in 1..Len(test_tiles) :
           i < j /\ test_tiles[i] = test_tiles[j] /\ ~IsOrphan(test_tiles[i])
    /\ shanten = 12 - Cardinality(OrphansHeld(test_tiles))

----------------------------------------------------------------------------
(* C2: every kind K in the map returned by calculate_ukeire lowers the      *)
(* shanten of the hand by exactly one: calculate_shanten(hand + [K]) =      *)
(* calculate_shanten(hand) - 1, never two or more.                          *)
C2_UkeireOneStep ==
    "ukeire" \in done =>
        \A K \in DOMAIN ukeire :
            calculate_shanten(Append(hand_tiles, K), melds_count, shentan_type)
                = calculate_shanten(hand_tiles, melds_count, shentan_type) - 1

\* a standard hand one tile from complete with several kinds completing it
C2_Witness ==
    /\ "ukeire" \in done /\ shentan_type = "general"
    /\ Cardinality(DOMAIN ukeire) >= 2
    /\ \A K \in DOMAIN ukeire :
           calculate_shanten(Append(hand_tiles, K), melds_count, shentan_type) = -1

----------------------------------------------------------------------------
(* C3: the map returned by calculate_ukeire contains a kind K exactly when  *)
(* K is not of the excluded suit, remaining(K) = 4 - (copies of K in the    *)
(* hand and among the visible tiles) is at least 1, and adding one K        *)
(* lowers the shanten of the same shape kind; the value stored is           *)
(* remaining(K), in 1..4.  For 1-9 of one suit and 1, 1, 2, 3 of another    *)
(* with nothing visible, rank 4 of the second suit is in the map with 4.    *)

Remaining(K) == 4 - CountsOf(hand_tiles \o discard_pool)[K]

LowersShanten(K) ==
    calculate_shanten(Append(hand_tiles, K), melds_count, shentan_type) < shanten

\* 1-9 of suit a and 1, 1, 2, 3 of suit b
IsScenarioHand(tiles, a, b) ==
    /\ a # b
    /\ CountsOf(tiles) =
           [key \in ALL_TILES |->
               IF TileTypeOf(key) = a THEN 1
               ELSE IF TileTypeOf(key) = b /\ ValueOf(key) \in 1..3
                    THEN (IF ValueOf(key) = 1 THEN 2 ELSE 1)
               ELSE 0]

C3_UkeireCharacterised ==
    ({"ukeire", "shanten"} \subseteq done /\ new_tile = 0) =>
        /\ DOMAIN ukeire \subseteq ALL_TILES
        /\ \A K \in ALL_TILES :
               K \in DOMAIN ukeire <=>
                   /\ TileTypeOf(K) # missing_suit
                   /\ Remaining(K) >= 1
                   /\ LowersShanten(K)
        /\ \A K \in DOMAIN ukeire : ukeire[K] = Remaining(K) /\ ukeire[K] \in 1..4
        /\ \A a, b \in NumberSuits :
               (/\ IsScenarioHand(hand_tiles, a, b) /\ discard_pool = <<>>
                /\ missing_suit = -1 /\ shentan_type = "general")
                   => (Tile(b, 4) \in DOMAIN ukeire /\ ukeire[Tile(b, 4)] = 4)

\* a kind that would lower the shanten is left out because no copy remains,
\* another because it is of the excluded suit, and a third is recorded
C3_Witness ==
    /\ {"ukeire", "shanten"} \subseteq done /\ new_tile = 0
    /\ DOMAIN ukeire # {}
    /\ \E K \in ALL_TILES :
           TileTypeOf(K) # missing_suit /\ Remaining(K) <= 0 /\ LowersShanten(K)
    /\ \E K \in ALL_TILES :
           TileTypeOf(K) = missing_suit /\ Remaining(K) >= 1 /\ LowersShanten(K)

C3_WitnessScenario ==
    /\ "ukeire" \in done /\ hand_tiles = ScenarioHand
    /\ Tile(TONG, 4) \in DOMAIN ukeire /\ ukeire[Tile(TONG, 4)] = 4

----------------------------------------------------------------------------
(* C5: with melds_count = 0 the seven-pairs shanten is 6 - P, P the number  *)
(* of pairs held, and -1 for 14 tiles that are 7 distinct pairs; 13 tiles   *)
(* that are 6 distinct pairs and a single tile have shanten 0, and their    *)
(* seven-pairs ukeire holds exactly the kind of the single tile.            *)

\* the pairs a hand holds: two for a kind held four times
PairsHeld(tiles) ==
    Cardinality({x \in ALL_TILES \X {1, 2} : CountsOf(tiles)[x[1]] >= 2 * x[2]})

\* n kinds held exactly twice, the kinds in singles held once, nothing else
PairsAndSingles(tiles, n, singles) ==
    /\ Cardinality({key \in ALL_TILES : CountsOf(tiles)[key] = 2}) = n
    /\ \A key \in ALL_TILES :
           CountsOf(tiles)[key] = (IF key \in singles THEN 1
                                   ELSE IF CountsOf(tiles)[key] = 2 THEN 2 ELSE 0)

----------------------------------------------------------------------------
(* The discard analysis *)

\* both calls of analyze_discard_efficiency have returned
Analyzed == {"base", "peak"} \subseteq done

\* the shanten of the 13 - 3k tiles left after discarding tile
AfterShanten(tile) ==
    calculate_shanten(remove(hand_tiles, tile), melds_count, shentan_type)

\* in scores, every candidate of the missing suit is above every candidate
\* outside it that leaves the same shanten
MissingSuitOutranks(scores) ==
    \A i, j \in 1..Len(scores) :
        (/\ missing_suit # -1
         /\ TileTypeOf(scores[i].tile) = missing_suit
         /\ TileTypeOf(scores[j].tile) # missing_suit
         /\ AfterShanten(scores[i].tile) = AfterShanten(scores[j].tile))
        => scores[i].score > scores[j].score

(* C8: in the result of analyze_discard_efficiency, with peak theory or     *)
(* without, every candidate of the player's missing suit scores strictly    *)
(* higher than every candidate outside that suit whose remainder has the    *)
(* same shanten.                                                            *)
C8_MissingSuitOutranks ==
    /\ "base" \in done => MissingSuitOutranks(scores_base)
    /\ "peak" \in done => MissingSuitOutranks(scores_peak)

\* the same without peak theory only
C8_BaseOutranks == "base" \in done => MissingSuitOutranks(scores_base)

(* C9: for every candidate the score with use_peak_theory=True is greater   *)
(* than or equal to its score with use_peak_theory=False.                   *)
C9_PeakNotBelowBase ==
    Analyzed =>
        /\ Len(scores_peak) = Len(scores_base)
        /\ \A i \in 1..Len(scores_base) :
            /\ scores_peak[i].tile = scores_base[i].tile
            /\ scores_peak[i].score >= scores_base[i].score

\* a bonus has been added to some candidate
C9_Witness ==
    /\ Analyzed
    /\ \E i \in 1..Len(scores_base) : scores_peak[i].score > scores_base[i].score

\* the highest score is at least 0.1 above every other candidate's
ClearWinner(scores) ==
    \E i \in 1..Len(scores) :
        \A j \in 1..Len(scores) \ {i} :
            (scores[i].score - scores[j].score) * 10 >= ScoreUnit

HandShanten == calculate_shanten(hand_tiles, melds_count, shentan_type)

(* C10: when the shanten of the hand held is greater than 2, or the highest *)
(* base score is at least 0.1 above every other candidate's base score, the *)
(* call with use_peak_theory=True returns for every candidate exactly the   *)
(* score of the call with use_peak_theory=False.                            *)
C10_NoOpOutsideTrigger ==
    (Analyzed /\ (HandShanten > 2 \/ ClearWinner(scores_base)))
        => scores_peak = scores_base

\* far from ready with the top scores tied: only the shanten keeps peak
\* theory off
C10_Witness ==
    /\ Analyzed
    /\ HandShanten > 2
    /\ Len(scores_base) > 1
    /\ Cardinality(TiedTop(scores_base)) > 1

\* a clear winner among several candidates of a hand within 2 of ready
C10_WitnessClearWinner ==
    /\ Analyzed
    /\ HandShanten <= 2
    /\ Len(scores_base) > 1
    /\ ClearWinner(scores_base)

(* C11: within a call of analyze_discard_efficiency every nested call of it *)
(* (made through _find_optimal_waiting_state) runs with                     *)
(* use_peak_theory=False, and the nesting depth never exceeds 2.            *)
C11_OnePlyLookahead ==
    "nesting" \in done =>
        /\ nesting.depth <= 2
        /\ nesting.peak_flags \subseteq {FALSE}

\* a call that did nest, and returned
C11_Witness ==
    /\ {"nesting", "peak"} \subseteq done
    /\ nesting.depth = 2
    /\ nesting.peak_flags = {FALSE}

(* C12: evaluate_tile_danger_level returns a value in [0, 1] for every tile, *)
(* discard history, visible-tile list and round, a tile absent from the      *)
(* discard history included; it never fails to return.                       *)
C12_DangerInUnitRange ==
    "danger" \in done =>
        /\ danger.raised = ""
        /\ danger.value \in 0..DangerUnit

(* C13: when the shanten of the hand held, for the shape kind evaluated, is *)
(* at most 8, the after-discard shanten of every candidate computed in      *)
(* analyze_discard_efficiency is an integer from -1 to 8.                   *)
C13_AfterShantenAtMost8 ==
    ("base" \in done /\ HandShanten <= 8) =>
        \A i \in 1..Len(scores_base) : AfterShanten(scores_base[i].tile) \in -1..8

(* C14: analyze_discard_efficiency called with an empty candidate list fails *)
(* with the EmptyCandidateSet error, whatever the hand's shanten and the     *)
(* peak-theory flag are.                                                     *)
C14_EmptyCandidateSet ==
    \A call \in done \cap {"base", "peak"} :
        available_tiles = <<>> => <<call, "EmptyCandidateSet">> \in raised

(* C15: calculate_shanten called for the seven-pairs or the thirteen-orphans *)
(* shape with melds_count other than 0 fails with an InvalidShapeKind error  *)
(* instead of returning a shanten.                                           *)
C15_InvalidShapeKind ==
    (/\ "shanten" \in done
     /\ shentan_type \in {"pairs", "kokushi"}
     /\ melds_count # 0)
        => <<"shanten", "InvalidShapeKind">> \in raised

\* the standard shanten of the hand held, and of what is left without tile
StandardShanten == calculate_shanten(hand_tiles, melds_count, "general")

StandardAfter(tile) ==
    calculate_shanten(remove(hand_tiles, tile), melds_count, "general")

(* C16: when some tile of the hand can be removed without increasing the    *)
(* standard shanten, the tile choose_discard returns with all hand tiles as *)
(* candidates, on either branch of its random choice, is such a tile.       *)
C16_DiscardKeepsShanten ==
    (/\ "chosen" \in done
     /\ available_tiles = hand_tiles
     /\ \E i \in 1..Len(hand_tiles) : StandardAfter(hand_tiles[i]) <= StandardShanten)
        => StandardAfter(chosen.tile) <= StandardShanten

\* the same for the branch that returns the best-scored tile and a player
\* without a missing suit
C16_BestKeepsShanten ==
    (/\ "chosen" \in done
     /\ available_tiles = hand_tiles
     /\ chosen.branch = "best"
     /\ missing_suit = -1
     /\ \E i \in 1..Len(hand_tiles) : StandardAfter(hand_tiles[i]) <= StandardShanten)
        => StandardAfter(chosen.tile) <= StandardShanten

\* the highest score of the call without peak theory
TopBase == MaxOf({scores_base[i].score : i \in 1..Len(scores_base)})

(* C18: after analyze_discard_efficiency with use_peak_theory=True every    *)
(* candidate whose base score is more than 0.1 below the top base score     *)
(* keeps exactly its base score, a third-ranked candidate behind two tied   *)
(* leaders included.                                                        *)
C18_BonusOnlyNearTied ==
    Analyzed =>
        \A i \in 1..Len(scores_base) :
            (TopBase - scores_base[i].score) * 10 > ScoreUnit
                => scores_peak[i].score = scores_base[i].score

\* the bonus of candidate i from the ukeire of its own remainder
OwnBonus(i) ==
    _calculate_peak_theory_bonus(scores_base[i].tile, hand_tiles, melds_count,
        missing_suit, discard_pool, HandShanten, shentan_type,
        scores_base[i].ukeire)

(* C19: the peak-theory bonus added to a near-tied candidate is the one     *)
(* computed from the ukeire map of that candidate's own remainder, whatever *)
(* the order of the candidate list and whichever candidate was scored last. *)
C19_BonusFromOwnUkeire ==
    (Analyzed /\ HandShanten <= 2 /\ PeakApplies(scores_base)) =>
        \A i \in TiedTop(scores_base) :
            scores_peak[i].score - scores_base[i].score = OwnBonus(i)

----------------------------------------------------------------------------
(* The phases before play *)

\* the players whose missing-suit choice the engine holds
Chosen(e) == {p \in DOMAIN e.missing_suits : e.missing_suits[p] # -1}

\* the player whose call was accepted in this step, if it was
Accepted == IF returned'.result THEN {returned'.player_id} ELSE {}

\* the phases follow one another: a state changes only into TILE_EXCHANGE by
\* start_new_game, from there into MISSING_SUIT_SELECTION, from there into
\* PLAYING
PhasesInOrder ==
    engine'.state # engine.state =>
        \/ returned'.op = "start_new_game" /\ engine'.state = TILE_EXCHANGE
        \/ engine.state = TILE_EXCHANGE /\ engine'.state = MISSING_SUIT_SELECTION
        \/ engine.state = MISSING_SUIT_SELECTION /\ engine'.state = PLAYING

\* start_new_game of an engine that was set up returns True in TILE_EXCHANGE
StartsWithExchange ==
    (returned'.op = "start_new_game" /\ engine.players # <<>>) =>
        returned'.result /\ engine'.state = TILE_EXCHANGE

\* in TILE_EXCHANGE an accepted submission is held for its player, a refused
\* one changes nothing, and the phase ends exactly when all four are held
ExchangeEndsWhenAllSubmitted ==
    (returned'.op = "submit_exchange_tiles" /\ engine.state = TILE_EXCHANGE) =>
        /\ DOMAIN engine'.exchange_tiles = DOMAIN engine.exchange_tiles \cup Accepted
        /\ ~returned'.result => engine' = engine
        /\ engine'.state # TILE_EXCHANGE <=> DOMAIN engine'.exchange_tiles = Seats

\* in MISSING_SUIT_SELECTION an accepted choice is held for its player, a
\* refused one changes nothing, and play starts exactly when all four are held
PlayStartsWhenAllChosen ==
    (returned'.op = "submit_missing_suit" /\ engine.state = MISSING_SUIT_SELECTION) =>
        /\ Chosen(engine') = Chosen(engine) \cup Accepted
        /\ ~returned'.result => engine' = engine
        /\ engine'.state = PLAYING <=> Chosen(engine') = Seats

\* a submission in any other state returns False and changes nothing
RefusedElsewhere ==
    /\ (returned'.op = "submit_exchange_tiles" /\ engine.state # TILE_EXCHANGE) =>
           ~returned'.result /\ engine' = engine
    /\ (returned'.op = "submit_missing_suit" /\ engine.state # MISSING_SUIT_SELECTION) =>
           ~returned'.result /\ engine' = engine

----------------------------------------------------------------------------
(* The counts list of the decomposition search *)

(* C20: when a call of _enumerate_combinations returns, the counts list     *)
(* holds exactly the values it held when the call started, for every        *)
(* 9-position count vector: backtracking is an exact inverse.               *)
C20_BacktrackingRestores ==
    "enumerated" \in done => enumerated.counts = counts_list

\* a call that tried a triplet, a run, a pair and both partial runs at its
\* first position and found several decompositions
C20_Witness ==
    /\ "enumerated" \in done
    /\ counts_list[1] >= 3 /\ counts_list[2] > 0 /\ counts_list[3] > 0
    /\ Cardinality(enumerated.results) > 3
    /\ \E r \in enumerated.results : r[1] = 4

(* The triples of one suit *)

\* the vectors one choice at the first nonzero position p leads to, each with
\* what the choice adds to (melds, partial sets, pairs)
SuitChoices(v) ==
    LET p == CHOOSE i \in 1..9 : v[i] > 0 /\ \A j \in 1..(i - 1) : v[j] = 0
        less(S) == [i \in 1..9 |-> IF i \in S THEN v[i] - 1 ELSE v[i]]
    IN  {[to |-> [v EXCEPT ![p] = @ - 3], add |-> <<1, 0, 0>>] : x \in {q \in {0} : v[p] >= 3}}
        \cup {[to |-> less({p, p + 1, p + 2}), add |-> <<1, 0, 0>>] : x \in {q \in {0} : p <= 7 /\ v[p + 1] > 0 /\ v[p + 2] > 0}}
        \cup {[to |-> [v EXCEPT ![p] = @ - 2], add |-> <<0, 0, 1>>] : x \in {q \in {0} : v[p] >= 2}}
        \cup {[to |-> less({p, p + 1}), add |-> <<0, 1, 0>>] : x \in {q \in {0} : p <= 8 /\ v[p + 1] > 0}}
        \cup {[to |-> less({p, p + 2}), add |-> <<0, 1, 0>>] : x \in {q \in {0} : p <= 7 /\ v[p + 2] > 0}}
        \cup {[to |-> less({p}), add |-> <<0, 0, 0>>]}

\* the triples reached from v by choosing until the vector is empty
RECURSIVE ReachableTriples(_)
ReachableTriples(v) ==
    IF \A i \in 1..9 : v[i] = 0
    THEN {<<0, 0, 0>>}
    ELSE UNION {{<<c.add[1] + r[1], c.add[2] + r[2], c.add[3] + r[3]>> :
                    r \in ReachableTriples(c.to)} : c \in SuitChoices(v)}

\* C21: for every vector of nine counts 0..4, _get_suit_combinations returns
\* exactly the triples reachable by choosing, at the first nonzero position,
\* a triplet, a run, a pair, an adjacent or one-gap partial run or a single
\* tile until the vector is empty; the all-zero vector gives {(0, 0, 0)}
C21_ExactlyReachableTriples ==
    "combinations" \in done =>
        /\ combinations = ReachableTriples(counts_list)
        /\ counts_list = EmptySuit => combinations = {<<0, 0, 0>>}

\* the nine gates suit: every one of the six choices applies at the first
\* position, and four melds and a pair are among the triples
C21_Witness ==
    /\ "combinations" \in done
    /\ counts_list = <<3, 1, 1, 1, 1, 1, 1, 1, 3>>
    /\ Cardinality(SuitChoices(counts_list)) = 6
    /\ <<4, 0, 0>> \in combinations
    /\ Cardinality(combinations) > 6

(* The tag of a wait *)

Classified == "pattern" \in done

\* the kinds waited for
Waits == DOMAIN wait_ukeire

\* number of copies of a kind in the hand
Held(key) == _count_tiles(hand_tiles)[key]

\* the map is the ukeire of the hand itself
OwnMap ==
    wait_ukeire = OwnUkeire([tiles |-> hand_tiles, melds_count |-> melds_count,
                             shentan_type |-> shentan_type])

NoTemplate == _check_special_tenpai_patterns(hand_tiles, wait_ukeire) = ""

\* a ready hand waiting for one numbered kind of rank 3 or 7
WaitsAt37 ==
    /\ Cardinality(Waits) = 1
    /\ \A key \in Waits : is_number_tile(key) /\ ValueOf(key) \in {3, 7}
    /\ NoTemplate
    /\ OwnMap
    /\ calculate_shanten(hand_tiles, melds_count, shentan_type) = 0

\* both neighbours of the waited kind are held
Enclosed(key) == Held(key - 1) > 0 /\ Held(key + 1) > 0

\* the two ranks below a 3 or above a 7 are held and the wait is not enclosed
EdgeShape(key) ==
    /\ IF ValueOf(key) = 3 THEN Held(key - 1) > 0 /\ Held(key - 2) > 0
                           ELSE Held(key + 1) > 0 /\ Held(key + 2) > 0
    /\ ~Enclosed(key)

\* C22: a single wait at rank 3 or 7 is tagged edge wait only when the hand
\* holds the two ranks on the outer side and does not enclose the wait, and
\* is tagged closed wait when the hand holds both neighbours of the waited rank
C22_EdgeOrClosedAt37 ==
    Classified /\ WaitsAt37 =>
        \A key \in Waits :
            /\ wait_pattern = "penchan" => EdgeShape(key)
            /\ Enclosed(key) => wait_pattern = "kanchan"

SpecialTags == {"kokushi", "jiulian"}
SingleTags == {"penchan", "kanchan", "tanki"}
DoubleTags == {"shanpon", "shuangtiao", "ryanmen"}
MultiTags == {"sanmen", "duomin"}

IsHonor(key) == TileTypeOf(key) \in {FENG, JIAN}

\* C23: the classifier gives one tag, in priority order: the special template
\* the hand matches; else for one waited kind an edge, closed or pair wait
\* (pair wait for an honor); for two kinds a dual-pair, double-single or
\* two-sided wait (dual-pair with an honor among them); for three or more
\* kinds a multi-sided wait; unknown only for the empty map
C23_OneTagInPriorityOrder ==
    Classified =>
        /\ wait_pattern \in SpecialTags \cup SingleTags \cup DoubleTags
                            \cup MultiTags \cup {"unknown"}
        /\ ~NoTemplate =>
               wait_pattern = _check_special_tenpai_patterns(hand_tiles, wait_ukeire)
        /\ NoTemplate /\ Cardinality(Waits) = 1 =>
               /\ wait_pattern \in SingleTags
               /\ (\E key \in Waits : IsHonor(key)) => wait_pattern = "tanki"
        /\ NoTemplate /\ Cardinality(Waits) = 2 =>
               /\ wait_pattern \in DoubleTags
               /\ (\E key \in Waits : IsHonor(key)) => wait_pattern = "shanpon"
        /\ NoTemplate /\ Cardinality(Waits) >= 3 => wait_pattern \in MultiTags
        /\ wait_pattern = "unknown" => Waits = {}

\* two pairs, one of an honor kind, waiting for either: a dual-pair wait
C23_Witness ==
    /\ Classified
    /\ hand_tiles = <<1, 1, 31, 31>>
    /\ OwnMap
    /\ Waits = {1, 31}
    /\ wait_pattern = "shanpon"

\* the nine gates hand with its nine waits takes the template's tag
C23_WitnessTemplate ==
    /\ Classified
    /\ OwnMap
    /\ Cardinality(Waits) = 9
    /\ wait_pattern = "jiulian"

(* The wall: all four copies of the tile visible *)

Copies(tile, n) == [i \in 1..n |-> tile]

VisibleCopies ==
    Cardinality({i \in 1..Len(danger_call.all_visible_tiles) :
                    danger_call.all_visible_tiles[i] = danger_call.tile})

\* the call is for a numbered tile that is not in the discard history and has
\* all four copies among the visible tiles
WallCall ==
    /\ "danger" \in done
    /\ is_number_tile(danger_call.tile)
    /\ \A i \in 1..Len(danger_call.discard_pool) :
           danger_call.discard_pool[i] # danger_call.tile
    /\ VisibleCopies = 4

\* the accumulated score of the call with the visible tiles replaced
ScoreWith(visible) ==
    DangerScore(danger_call.tile, danger_call.discard_pool, visible,
                danger_call.round_number)

\* C24: for a numbered tile not in the discard history, the danger with all
\* four copies visible is a value, the accumulated score is 0.3 times the
\* score of the same call with no copy visible, and the danger is not higher
\* than with exactly three copies visible
C24_WallSafety ==
    WallCall =>
        /\ danger.raised = ""
        /\ 10 * ScoreWith(danger_call.all_visible_tiles) = 3 * ScoreWith(<<>>)
        /\ ScoreWith(danger_call.all_visible_tiles)
               <= ScoreWith(Copies(danger_call.tile, 3))

----------------------------------------------------------------------------
(* The playing phase: the response window of a discard *)

\* the response options of the discard the engine waits for
ResponseOptions(e) ==
    _check_response_actions(e, e.last_discard_player, e.last_discarded_tile)

\* the engine still waits: nobody has drawn and the turn has not moved
TurnKept ==
    /\ engine'.state = WAITING_ACTION
    /\ engine'.current_player_index = engine.current_player_index
    /\ engine'.deck = engine.deck

\* the call before this one was the discard the engine waits for, so that
\* nobody has answered it yet
NobodyAnswered == returned.action = DISCARD /\ returned.result

\* C25: in WAITING_ACTION a PASS from a player who holds no response option
\* for the discard, or the first PASS after a discard that two or more
\* players hold options for, leaves the engine waiting: the state stays
\* WAITING_ACTION, the turn does not move and nobody draws.
C25_PassWaitsForAll ==
    [][(/\ returned'.action = PASS
        /\ engine.state = WAITING_ACTION
        /\ \/ returned'.player_id \notin DOMAIN ResponseOptions(engine)
           \/ NobodyAnswered /\ Cardinality(DOMAIN ResponseOptions(engine)) >= 2)
           => TurnKept]_vars

(* The playing phase: the tiles of a game *)

\* the copies of a tile lying in the discard pool
CopiesPooled(pool, tile) == Cardinality({i \in 1..Len(pool) : pool[i][1] = tile})

\* the copies of a tile one player holds, in hand and in melds
CopiesOwned(player, tile) ==
    CopiesHeld(player.hand_tiles, tile) + CopiesHeld(MeldTiles(player.melds), tile)

\* the copies of a tile in the wall, the four players' hands and melds, and
\* the discard pool
CopiesInGame(e, tile) ==
    CopiesHeld(e.deck, tile) + CopiesPooled(e.discard_pool, tile)
    + CopiesOwned(e.players[0], tile) + CopiesOwned(e.players[1], tile)
    + CopiesOwned(e.players[2], tile) + CopiesOwned(e.players[3], tile)

\* C28: in every state of a game the wall, the hands, the melds and the
\* discard pool hold together exactly four copies of each of the 27 numbered
\* tiles, 108 tiles in all, whatever discards, passes, pengs, gangs, hidden
\* gangs and wins (several winners of one discard included) came before.
C28_TilesConserved ==
    \A tile \in {k \in ALL_TILES : is_number_tile(k)} : CopiesInGame(engine, tile) = 4

(* The playing phase: claims on an earlier discard *)

\* the GANG a player calls is an open one, of another player's discard
OpenGang(e, player_id) ==
    /\ e.last_discarded_tile # 0
    /\ player_id # e.last_discard_player
    /\ can_gang(e.players[player_id].hand_tiles, e.last_discarded_tile)

\* the call that returns is a PENG or an open GANG that succeeded
ClaimSucceeds ==
    /\ returned'.result
    /\ \/ returned'.action = PENG
       \/ returned'.action = GANG /\ OpenGang(engine, returned'.player_id)

\* C30: a PENG or an open GANG succeeds only while the engine is in
\* WAITING_ACTION for the last discard, never once the next player has
\* drawn and the state is PLAYING again; and while a game is played the
\* current player is one of the active players.
C30_ClaimOnlyInWindow ==
    [][/\ ClaimSucceeds => engine.state = WAITING_ACTION
       /\ engine'.state \in {PLAYING, WAITING_ACTION}
             => Has(engine'.active_players, engine'.current_player_index)]_vars

(* The exchange of three tiles *)

\* the call that returns is the accepted submission that completes the four
\* and carries out the exchange
ExchangeDone ==
    /\ returned'.op = "submit_exchange_tiles"
    /\ returned'.result
    /\ engine.state = TILE_EXCHANGE
    /\ engine'.state # TILE_EXCHANGE

\* C29: the exchange of three tiles leaves every hand at the size it had:
\* 14 tiles for the dealer and 13 for the others, for every set of four
\* accepted submissions, a submission naming one tile three times included.
C29_ExchangeKeepsHandSizes ==
    [][ExchangeDone =>
          \A p \in Seats :
             /\ Len(engine'.players[p].hand_tiles) = Len(engine.players[p].hand_tiles)
             /\ Len(engine'.players[p].hand_tiles)
                   = get_initial_hand_size + (IF p = engine.dealer_index THEN 1 ELSE 0)]_vars

(* The discard of one tile: the shanten of the hand left *)

\* the shanten analyze_discard_efficiency computes for the hand left after
\* a tile is discarded
after_shanten(tile) ==
    calculate_shanten(remove(test_tiles, tile), melds_count, shentan_type)

\* the tiles held, each once
KindsHeld(tiles) == {tiles[i] : i \in 1..Len(tiles)}

\* C26: for a hand of 2 to 14 tiles and each of the three shapes, the shanten
\* of the hand with any one tile removed is the shanten of the hand or one
\* more: removing a tile never lowers it and raises it by at most one.
C26_RemovalRaisesByAtMostOne ==
    "shanten" \in done /\ Len(test_tiles) >= 2
        => \A tile \in KindsHeld(test_tiles) : after_shanten(tile) \in {shanten, shanten + 1}

\* a complete hand of fourteen tiles was measured (shanten -1) and every
\* discard from it leaves a ready hand
C26_Witness ==
    /\ "shanten" \in done
    /\ shanten = -1
    /\ Len(test_tiles) = 14
    /\ \A tile \in KindsHeld(test_tiles) : after_shanten(tile) = 0

(* analyze_discard_efficiency and the objects it is handed *)

\* C27: a call of analyze_discard_efficiency, with peak theory or without,
\* leaves its inputs as they were: the tiles of the player's hand and their
\* order, the player's melds and missing suit, the list of candidates and the
\* discard pool, whatever the nested analysis of hands after a draw does to
\* the lists it works on.
C27_InputsUntouched ==
    [][/\ hand_tiles' = hand_tiles
       /\ melds_count' = melds_count
       /\ missing_suit' = missing_suit
       /\ available_tiles' = available_tiles
       /\ discard_pool' = discard_pool]_vars

\* a call with peak theory returned whose nested analysis discarded from a
\* hand after a draw
C27_Witness ==
    /\ "called_peak" \in done
    /\ Reaches(hand_tiles, available_tiles, melds_count, missing_suit,
               discard_pool, shentan_type, TRUE, 1, 2)

============================================================================
